---- MODULE Spec2Model ----
(***************************************************************************)
(* Queue delivery and autofill of the radio companion site.                *)
(*                                                                         *)
(* GET /api/liquidsoap (deliverNext) is an async handler: every `await` on *)
(* the store is one atomic statement of the database and a point where     *)
(* another poll, a user enqueue (POST /api/queue) or the clock may come in *)
(* between.  The model has one action per awaited statement of the store, *)
(* with the code that follows it up to the next statement of the store:    *)
(* the synchronous code and the calls to the recommendation source and to  *)
(* the resolver, which touch no state of the program.                      *)
(***************************************************************************)
EXTENDS Integers, Sequences, FiniteSets, TLC

\* ---------------------------------------------------------------- bounds
MaxRows   == 3      \* rows ever created (ids 1..MaxRows)
MaxTicks  == 1      \* clock advances
StartTime == 20000  \* Date.now() when the process starts
MaxPauses == 3      \* clock advances of less than a cooldown
MaxGatePauses == 2  \* the same, under overlapping polls
MaxTimers == 3      \* timer ids of the player that are in use at once
MaxPlays  == 2      \* calls of tryPlay of the player that are under way at once
MaxItems  == 3      \* items handed to mapWithConcurrency
MaxConcurrency == 3 \* the largest `concurrency` handed to it
PauseMs   == 6000   \* the length of one of them

Pollers   == {"p1", "p2"}          \* overlapping polls of the encoder
Urls      == {"yt:a", "yt:b"}      \* playable URLs the resolver / users produce

\* ------------------------------------------------------ program constants
TARGET_UNDELIVERED_BEFORE_DELIVER == 2
DELETE_TTL_MS                     == 10 * 60 * 1000
AUTOFILL_COOLDOWN_MS              == 10000
MAX_ATTEMPTS                      == 3

TickSizes == {AUTOFILL_COOLDOWN_MS, DELETE_TTL_MS}

Null   == -1        \* deleteAt = null
NoRow  == [id |-> 0, url |-> ""]
NoPf   == [site |-> 0, und |-> 0, inserted |-> 0, cand |-> ""]
NoResp == [status |-> 0, id |-> 0, url |-> "", msg |-> "", marked |-> FALSE]
NoCall == [at |-> Null, ran |-> Null]
NoH    == [kind |-> "", site |-> 0, und |-> 0, ins |-> 0]
NoQResp == [op |-> "", status |-> 0, msg |-> "", id |-> 0, items |-> << >>]
NoBody == [json |-> "none"]
NoYt   == [kind |-> "", q |-> 0, i |-> 0, url |-> ""]
NoPlayer == [on |-> FALSE]
NoPool == [at |-> ""]
NoGate == [on |-> FALSE, ran |-> << >>, skipped |-> Null]
NoRun  == [at |-> "", rows |-> << >>, batch |-> << >>, i |-> 0, inserted |-> 0,
           seen |-> {}, resolved |-> {}, added |-> {}]
NoLb   == [at |-> "", prompt |-> << >>, token |-> FALSE, site |-> 0,
           attempt |-> 0, calls |-> 0, errs |-> << >>, slept |-> << >>,
           out |-> "", resp |-> NoResp, last |-> [t |-> "null"]]

VARIABLES
  rows,            \* table radioRequest: set of [id, url, createdAt, deleteAt]
  nextId,          \* next id the store assigns
  now,             \* wall clock (ms)
  ticks,           \* number of clock advances so far
  lastAutofillAt,  \* module-level throttle timestamp
  pc,              \* position of each poll in the handler
  next,            \* handler local `next` (id and youtubeUrl of the row read)
  pf,              \* the running ensurePrefill call: its call site (1, 3, 4)
                   \* and its locals undeliveredPlayable, inserted and
                   \* yt.youtubeUrl of the candidate in hand
  resp,            \* the Response the poll returned
  solo,            \* scenario: polls and enqueues come one at a time
  \* history variables, read by the properties only
  hStartDelivered, \* ids that were delivered when the poll started; once the
                   \* poll has read its row, those of them with that row's URL
  hSawPending,     \* some read of the poll saw a pending row
  hStartRows,      \* solo: the table when the poll started
  hSweptAt,        \* solo: the clock when the poll ran its sweep
  hCall,           \* solo: when ensurePrefill was last called (at) and when
                   \* a call last passed the cooldown gate (ran)
  hGate,           \* overlapping polls, when recorded: the times at which a
                   \* call without force passed the cooldown gate, and when
                   \* one was last held back
  hPf,             \* solo: how the last call of ensurePrefill went: skipped
                   \* by the cooldown, or its end ("ok" or the error
                   \* thrown), the pending count it read, the rows it inserted
  \* the other entry points, each under a specification of its own
  fresh,           \* scenario: the recommendation source and the resolver
                   \* always have one more track that is not in the store
  qreq,            \* /api/queue: the body of the POST request in hand
  qresp,           \* /api/queue: the response in hand
  ytIn,            \* resolver: what yt.music.search returns for each query
  ytOut,           \* resolver: the result of searchYouTubeMusicFirstSong
  run,             \* one run of the loop of ensurePrefill over a batch
  lb,              \* one call of fetchLbRadio
  faulty,          \* scenario: the calls of the store may throw
  player,          \* the audio player of the page: its refs and timers
  pool             \* one call of mapWithConcurrency

vars == << rows, nextId, now, ticks, lastAutofillAt, pc, next, pf, resp, solo,
           hStartDelivered, hSawPending, hStartRows, hSweptAt, hCall, hGate, hPf,
           fresh, qreq, qresp, ytIn, ytOut, run, lb, faulty, player, pool >>

hist == << hStartDelivered, hSawPending, hStartRows, hSweptAt >>

\* what the handler of /api/liquidsoap never touches
side == << fresh, qreq, qresp, ytIn, ytOut, run, lb, faulty, player, pool >>
\* the entry points that came last
more == << run, lb, faulty, player, pool >>
\* the player of the page and the search of MusicBrainz
front == << player, pool >>

\* ------------------------------------------------------------ the store

\* where: { deleteAt: null, youtubeUrl: { not: '' } }
UndeliveredPlayable(rs) == {r \in rs : r.deleteAt = Null /\ r.url # ""}

countUndeliveredPlayable(rs) == Cardinality(UndeliveredPlayable(rs))

\* mutant: the read forgets `deleteAt: null` and replays delivered rows
peekOldestOfAll(rs) ==
  {r \in rs : r.url # "" /\ \A s \in rs : r.createdAt <= s.createdAt}

\* findFirst ... orderBy: { createdAt: 'asc' }: the rows the statement may
\* return.  The order names createdAt only, so among rows of equal createdAt
\* the database returns whichever it finds first.
peekOldestUndeliveredPlayable(rs) ==
  {r \in UndeliveredPlayable(rs) :
     \A s \in UndeliveredPlayable(rs) : r.createdAt <= s.createdAt}

\* mutant: the sweep removes every delivered row, expired or not
cleanupDelivered(rs, t) == {r \in rs : r.deleteAt = Null}

\* deleteMany({ where: { deleteAt: { lte: now } } })
cleanupExpired(rs, t) == {r \in rs : ~(r.deleteAt # Null /\ r.deleteAt <= t)}

\* mutant: the update is lost
markNothing(rs, id, t) == rs

\* update({ where: { id }, data: { deleteAt: now + DELETE_TTL_MS } })
markAsDelivered(rs, id, t) ==
  {IF r.id = id THEN [r EXCEPT !.deleteAt = t + DELETE_TTL_MS] ELSE r : r \in rs}

\* mutant: an upsert on youtubeUrl that revives the row that carries it
upsertRow(rs, id, u, t) ==
  IF \E r \in rs : r.url = u
  THEN {IF r.url = u THEN [r EXCEPT !.deleteAt = Null] ELSE r : r \in rs}
  ELSE rs \cup {[id |-> id, url |-> u, createdAt |-> t, deleteAt |-> Null]}

\* prisma.radioRequest.create: id and createdAt are assigned by the store
createRow(rs, id, u, t) ==
  rs \cup {[id |-> id, url |-> u, createdAt |-> t, deleteAt |-> Null]}

\* findFirst({ where: { youtubeUrl } })
existsUrl(rs, u) == \E r \in rs : r.url = u

\* mutant: the target buffer is off by one
needOfOneMore(n) ==
  IF TARGET_UNDELIVERED_BEFORE_DELIVER + 1 - n > 0
  THEN TARGET_UNDELIVERED_BEFORE_DELIVER + 1 - n ELSE 0

\* mutant: the autofill never finds anything to insert
needOfNone(n) == 0

\* Math.max(0, TARGET_UNDELIVERED_BEFORE_DELIVER - undeliveredPlayable)
needOf(n) ==
  IF TARGET_UNDELIVERED_BEFORE_DELIVER - n > 0
  THEN TARGET_UNDELIVERED_BEFORE_DELIVER - n ELSE 0

\* the call sites of ensurePrefill: 1 passes no opts, 3 and 4 { force: true }
forceAt(site) == site # 1

\* mutant: the gate holds nothing back
cooldownOpen(f, t, last) == FALSE

\* mutant: the cooldown holds back the forced calls too
cooldownSkipsForced(f, t, last) == t - last < AUTOFILL_COOLDOWN_MS

\* !force && now - lastAutofillAt < AUTOFILL_COOLDOWN_MS
cooldownSkips(f, t, last) == ~f /\ t - last < AUTOFILL_COOLDOWN_MS

\* `undeliveredPlayable <= 1` (step 4 forces a prefill)
lastTrack(n) == n <= 1

\* mutant: the row in hand is marked whatever the count
shouldMarkAlways(n, nx) == nx.id # 0

\* `undeliveredPlayable >= 2 && next?.id`
shouldMark(n, nx) == n >= 2 /\ nx.id # 0

\* mutant: the dry queue is answered with an empty 204
internal204(m) == [status |-> 204, id |-> 0, url |-> "", msg |-> "", marked |-> FALSE]

\* mutant: a failure of the recommendation source is answered as a 500
lb500(m) == [status |-> 500, id |-> 0, url |-> "", msg |-> m, marked |-> FALSE]

internal500(m) == [status |-> 500, id |-> 0, url |-> "", msg |-> m, marked |-> FALSE]
lb502(m)       == [status |-> 502, id |-> 0, url |-> "", msg |-> m, marked |-> FALSE]
ok200(n, mk)   == [status |-> 200, id |-> n.id, url |-> n.url, msg |-> "", marked |-> mk]

\* the text body of a Response: `youtube-dl:${next.youtubeUrl}\n` with 200,
\* `${message}\n` with 500 and 502
body(r) ==
  IF r.status = 200 THEN "youtube-dl:" \o r.url \o "\n" ELSE r.msg \o "\n"

\* ------------------------------------------------------------ helpers
Ids(rs)      == {r.id : r \in rs}
AllIdle      == \A p \in Pollers : pc[p] = "idle"

TypeOK ==
  /\ nextId \in 1..(MaxRows + 1)
  /\ \A r \in rows : r.id \in 1..MaxRows /\ r.url \in Urls
  /\ \A p \in Pollers : pf[p].inserted \in 0..TARGET_UNDELIVERED_BEFORE_DELIVER

\* the store, the module state and the polls when the process starts
InitStore(s) ==
  /\ rows = {}
  /\ nextId = 1
  /\ now = StartTime
  /\ ticks = 0
  /\ lastAutofillAt = 0
  /\ pc = [p \in Pollers |-> "idle"]
  /\ next = [p \in Pollers |-> NoRow]
  /\ pf = [p \in Pollers |-> NoPf]
  /\ resp = [p \in Pollers |-> NoResp]
  /\ solo = s
  /\ hStartDelivered = [p \in Pollers |-> {}]
  /\ hSawPending = [p \in Pollers |-> FALSE]
  /\ hStartRows = {}
  /\ hSweptAt = 0
  /\ hPf = NoH
  /\ hCall = NoCall

\* nothing in hand at the other entry points
InitSide ==
  /\ qreq = NoBody
  /\ qresp = NoQResp
  /\ ytIn = << >>
  /\ ytOut = NoYt

InitFront ==
  /\ player = NoPlayer
  /\ pool = NoPool

InitMore ==
  /\ run = NoRun
  /\ lb = NoLb
  /\ faulty = FALSE
  /\ InitFront

InitWith(s) ==
  InitStore(s) /\ hGate = NoGate /\ fresh = FALSE /\ InitSide /\ InitMore

Init     == InitWith(FALSE)
InitSolo == InitWith(TRUE)

\* ------------------------------------------- history (not program state)
HPending(rs)   == {r \in rs : r.deleteAt = Null}
HDelivered(rs) == {r \in rs : r.deleteAt # Null}
HSee(p)        == [hSawPending EXCEPT ![p] = @ \/ HPending(rows) # {}]
HPick(p, r)    ==
  [hStartDelivered EXCEPT ![p] =
     {i \in @ : \E x \in rows : x.id = i /\ x.url = r.url}]

\* ------------------------------ how ensurePrefill comes back to the handler
\* `site` is the call site (1: throttled prefill, 3: forced prefill on an
\* empty read, 4: forced prefill for the last track); `out` is "ok" for a
\* normal return, or the error thrown: "empty" (ListenBrainzEmptyError),
\* "network" (ListenBrainzNetworkError), "prompt"
\* (ListenBrainzPromptEmptyError), "other" (any other error).
\* mutant: every error of ensurePrefill ends the call
CatchAll(site, out) == out # "ok"

CatchReturns(site, out) ==
  out = "prompt" \/ out = "network" \/ (out = "empty" /\ site # 4)

\* mutant: the empty prompt is answered as a failure of the source
CatchAs502(out) ==
  IF out = "network" THEN lb502("listenbrainz-network")
  ELSE lb502("listenbrainz-error")

CatchResp(out) ==
  IF out = "prompt" THEN internal500("internal-error:prompt")
  ELSE IF out = "network" THEN lb502("listenbrainz-network")
  ELSE lb502("listenbrainz-error")

ContinueAt(site) ==
  CASE site = 1 -> "peek"
    [] site = 3 -> "peek2"
    [] site = 4 -> "count2"

\* history: the call of ensurePrefill of poll p ends with `out`, having read
\* n pending rows and inserted ins
HEnd(p, out, n, ins) ==
  hPf' = IF solo THEN [kind |-> out, site |-> pf[p].site, und |-> n, ins |-> ins]
         ELSE hPf

PrefillEnds(p, out) ==
  /\ pf' = [pf EXCEPT ![p] = NoPf]
  /\ IF CatchReturns(pf[p].site, out)
     THEN /\ pc' = [pc EXCEPT ![p] = "done"]
          /\ resp' = [resp EXCEPT ![p] = CatchResp(out)]
          /\ next' = [next EXCEPT ![p] = NoRow]
     ELSE /\ pc' = [pc EXCEPT ![p] = ContinueAt(pf[p].site)]
          /\ UNCHANGED << resp, next >>

\* mutant: the final check forgets the rows that were already pending
emptyIfNoInsert(n, ins) == IF ins = 0 THEN "empty" ELSE "ok"

\* the final check of ensurePrefill, which throws ListenBrainzEmptyError
emptyOrOk(n, ins) == IF n = 0 /\ ins = 0 THEN "empty" ELSE "ok"

\* `for (const t of lbTracks)` from its head, with `n` the pending count the
\* run read and `ins` rows inserted, up to the next statement of the store:
\* `if (inserted >= need) break`, or the list is at its end, or the resolver
\* throws, or a candidate passes the filters and the resolver returns its
\* URL (candidates that are skipped change nothing).  In the scenario
\* `fresh` the list never ends, the resolver never throws and the URL it
\* returns is not in the store.
LoopNext(p, n, ins) ==
  IF ins >= needOf(n)
  THEN PrefillEnds(p, emptyOrOk(n, ins)) /\ HEnd(p, emptyOrOk(n, ins), n, ins)
  ELSE \/ ~fresh /\ PrefillEnds(p, emptyOrOk(n, ins))
                 /\ HEnd(p, emptyOrOk(n, ins), n, ins)
       \/ ~fresh /\ PrefillEnds(p, "other") /\ HEnd(p, "other", n, ins)
       \/ \E u \in Urls :
            /\ fresh => ~existsUrl(rows, u)
            /\ pf' = [pf EXCEPT ![p] = [site |-> pf[p].site, und |-> n,
                                        inserted |-> ins, cand |-> u]]
            /\ pc' = [pc EXCEPT ![p] = "pf_exists"]
            /\ UNCHANGED << resp, next, hPf >>

\* ensurePrefill is entered at `site`: the cooldown gate and
\* `lastAutofillAt = now` run before the first await
EnterPrefill(p, site) ==
  IF cooldownSkips(forceAt(site), now, lastAutofillAt)
  THEN /\ pc' = [pc EXCEPT ![p] = ContinueAt(site)]
       /\ hPf' = IF solo THEN [NoH EXCEPT !.kind = "skipped", !.site = site]
                  ELSE hPf
       /\ hCall' = IF solo THEN [hCall EXCEPT !.at = now] ELSE hCall
       /\ hGate' = IF hGate.on /\ site = 1
                  THEN [hGate EXCEPT !.skipped = now] ELSE hGate
       /\ UNCHANGED << lastAutofillAt, pf >>
  ELSE /\ lastAutofillAt' = now
       /\ hCall' = IF solo THEN [at |-> now, ran |-> now] ELSE hCall
       /\ hGate' = IF hGate.on /\ site = 1
                  THEN [hGate EXCEPT !.ran = Append(@, now)] ELSE hGate
       /\ pf' = [pf EXCEPT ![p] = [NoPf EXCEPT !.site = site]]
       /\ pc' = [pc EXCEPT ![p] = "pf_count"]
       /\ hPf' = hPf

\* ------------------------------------------------------------- actions

\* mutant: the first read of the oldest pending row is not in a try block
GuardedButPeek == {"sweep", "peek2", "count", "count2", "mark"}

\* mutant: the sweep is not in a try block
GuardedButSweep == {"peek", "peek2", "count", "count2", "mark"}

\* the calls of the store that the handler wraps in try / catch
Guarded == {"sweep", "peek", "peek2", "count", "count2", "mark"}

\* whether a call of the store throws: only in the scenario `faulty`
Faults == IF faulty THEN BOOLEAN ELSE {FALSE}

\* an error that nothing catches ends the handler without a Response
Crash(p) == pc' = [pc EXCEPT ![p] = "crashed"]

\* a poll of the encoder arrives: GET /api/liquidsoap.
\* 0) cleanupExpired(prisma), whose failure is logged;
\* 1) ensurePrefill(prisma) is entered
Poll(p) ==
  /\ pc[p] = "idle"
  /\ solo => AllIdle
  /\ \E f \in Faults :
       IF f /\ "sweep" \notin Guarded
       THEN /\ Crash(p)
            /\ UNCHANGED << rows, lastAutofillAt, pf, hPf, hCall, hGate >>
       ELSE /\ rows' = IF f THEN rows ELSE cleanupExpired(rows, now)
            /\ EnterPrefill(p, 1)
  /\ hStartDelivered' = [hStartDelivered EXCEPT ![p] = Ids(HDelivered(rows))]
  /\ hStartRows' = IF solo THEN rows ELSE hStartRows
  /\ hSweptAt' = IF solo THEN now ELSE hSweptAt
  /\ UNCHANGED << nextId, now, ticks, next, resp, solo, hSawPending >>
  /\ UNCHANGED side

\* ensurePrefill: countUndeliveredPlayable, need, `if (need === 0) return`;
\* then the read of lastPlayed and fetchLbRadio(seedPrompt), which throws
\* ListenBrainzNetworkError or another error (getLB without a token) or
\* returns the list the loop starts on.  A call of the store that throws
\* inside ensurePrefill ends it with that error.
PfCount(p) ==
  /\ pc[p] = "pf_count"
  /\ \/ LET n == countUndeliveredPlayable(rows) IN
          IF needOf(n) = 0
          THEN PrefillEnds(p, "ok") /\ HEnd(p, "ok", n, 0)
          ELSE \/ ~fresh /\ PrefillEnds(p, "network")
                         /\ HEnd(p, "network", n, 0)
               \/ LoopNext(p, n, 0)
     \/ faulty /\ PrefillEnds(p, "other") /\ HEnd(p, "other", 0, 0)
  /\ hSawPending' = HSee(p)
  /\ UNCHANGED << rows, nextId, now, ticks, lastAutofillAt, solo, hCall, hGate,
                  hStartDelivered, hStartRows, hSweptAt >>
  /\ UNCHANGED side

\* ensurePrefill: findFirst({ where: { youtubeUrl } }); `if (exists) continue`
PfExists(p) ==
  /\ pc[p] = "pf_exists"
  /\ \/ IF existsUrl(rows, pf[p].cand)
        THEN LoopNext(p, pf[p].und, pf[p].inserted)
        ELSE /\ pc' = [pc EXCEPT ![p] = "pf_create"]
             /\ UNCHANGED << pf, resp, next, hPf >>
     \/ faulty /\ PrefillEnds(p, "other")
               /\ HEnd(p, "other", pf[p].und, pf[p].inserted)
  /\ UNCHANGED << rows, nextId, now, ticks, lastAutofillAt, solo, hCall, hGate, hist >>
  /\ UNCHANGED side

\* ensurePrefill: prisma.radioRequest.create; inserted++
PfCreate(p) ==
  /\ pc[p] = "pf_create"
  /\ \/ /\ nextId <= MaxRows
        /\ rows' = createRow(rows, nextId, pf[p].cand, now)
        /\ nextId' = nextId + 1
        /\ LoopNext(p, pf[p].und, pf[p].inserted + 1)
     \/ /\ faulty
        /\ PrefillEnds(p, "other")
        /\ HEnd(p, "other", pf[p].und, pf[p].inserted)
        /\ UNCHANGED << rows, nextId >>
  /\ UNCHANGED << now, ticks, lastAutofillAt, solo, hCall, hGate,
                  hStartDelivered, hSawPending, hStartRows, hSweptAt >>
  /\ UNCHANGED side

\* 2) next = peekOldestUndeliveredPlayable, `catch { next = null }`;
\* 3) none: ensurePrefill forced
Peek(p) ==
  /\ pc[p] = "peek"
  /\ \E f \in Faults :
       LET read == IF f THEN {} ELSE peekOldestUndeliveredPlayable(rows) IN
       IF f /\ "peek" \notin Guarded
       THEN /\ Crash(p)
            /\ UNCHANGED << next, hStartDelivered, lastAutofillAt, pf, hPf,
                            hCall, hGate >>
       ELSE IF read = {}
       THEN /\ EnterPrefill(p, 3)
            /\ UNCHANGED << next, hStartDelivered >>
       ELSE /\ \E r \in read :
                 /\ next' = [next EXCEPT ![p] = [id |-> r.id, url |-> r.url]]
                 /\ hStartDelivered' = HPick(p, r)
            /\ pc' = [pc EXCEPT ![p] = "count"]
            /\ UNCHANGED << lastAutofillAt, pf, hPf, hCall, hGate >>
  /\ hSawPending' = HSee(p)
  /\ UNCHANGED << rows, nextId, now, ticks, resp, solo, hStartRows, hSweptAt >>
  /\ UNCHANGED side

\* 3) the re-read after the forced prefill, `catch { next = null }`;
\* none: internal500
Peek2(p) ==
  /\ pc[p] = "peek2"
  /\ \E f \in Faults :
       LET read == IF f THEN {} ELSE peekOldestUndeliveredPlayable(rows) IN
       IF f /\ "peek2" \notin Guarded
       THEN /\ Crash(p)
            /\ UNCHANGED << next, hStartDelivered, resp >>
       ELSE IF read = {}
       THEN /\ pc' = [pc EXCEPT ![p] = "done"]
            /\ resp' = [resp EXCEPT ![p] =
                          internal500("internal-error:no-undelivered-tracks")]
            /\ UNCHANGED << next, hStartDelivered >>
       ELSE /\ \E r \in read :
                 /\ next' = [next EXCEPT ![p] = [id |-> r.id, url |-> r.url]]
                 /\ hStartDelivered' = HPick(p, r)
            /\ pc' = [pc EXCEPT ![p] = "count"]
            /\ resp' = resp
  /\ hSawPending' = HSee(p)
  /\ UNCHANGED << rows, nextId, now, ticks, lastAutofillAt, pf, solo, hCall, hGate,
                  hStartRows, hSweptAt, hPf >>
  /\ UNCHANGED side

\* 4) undeliveredPlayable = count, `catch { undeliveredPlayable = 0 }`;
\* `<= 1`: ensurePrefill forced
Count(p) ==
  /\ pc[p] = "count"
  /\ \E f \in Faults :
       LET n == IF f THEN 0 ELSE countUndeliveredPlayable(rows) IN
       IF f /\ "count" \notin Guarded
       THEN /\ Crash(p)
            /\ UNCHANGED << lastAutofillAt, pf, hPf, hCall, hGate >>
       ELSE IF lastTrack(n)
       THEN EnterPrefill(p, 4)
       ELSE /\ pc' = [pc EXCEPT ![p] = "mark"]
            /\ UNCHANGED << lastAutofillAt, pf, hPf, hCall, hGate >>
  /\ hSawPending' = HSee(p)
  /\ UNCHANGED << rows, nextId, now, ticks, next, resp, solo,
                  hStartDelivered, hStartRows, hSweptAt >>
  /\ UNCHANGED side

\* 4) the count after the forced prefill, `catch { undeliveredPlayable = 0 }`;
\* below 2 the row is returned unmarked
Count2(p) ==
  /\ pc[p] = "count2"
  /\ \E f \in Faults :
       LET n == IF f THEN 0 ELSE countUndeliveredPlayable(rows) IN
       IF f /\ "count2" \notin Guarded
       THEN /\ Crash(p)
            /\ UNCHANGED << resp, next >>
       ELSE IF shouldMark(n, next[p])
       THEN /\ pc' = [pc EXCEPT ![p] = "mark"]
            /\ UNCHANGED << resp, next >>
       ELSE /\ pc' = [pc EXCEPT ![p] = "done"]
            /\ resp' = [resp EXCEPT ![p] = ok200(next[p], FALSE)]
            /\ next' = [next EXCEPT ![p] = NoRow]
  /\ hSawPending' = HSee(p)
  /\ UNCHANGED << rows, nextId, now, ticks, lastAutofillAt, pf, solo, hCall, hGate,
                  hStartDelivered, hStartRows, hSweptAt, hPf >>
  /\ UNCHANGED side

\* markAsDelivered(prisma, next.id) (the update throws when the row is gone
\* or the store fails, which the handler swallows), then the 200 response
Mark(p) ==
  /\ pc[p] = "mark"
  /\ \E f \in Faults :
       LET done == ~f /\ next[p].id \in Ids(rows) IN
       IF f /\ "mark" \notin Guarded
       THEN /\ Crash(p)
            /\ UNCHANGED << rows, resp, next >>
       ELSE /\ rows' = IF done THEN markAsDelivered(rows, next[p].id, now)
                       ELSE rows
            /\ resp' = [resp EXCEPT ![p] = ok200(next[p], done)]
            /\ next' = [next EXCEPT ![p] = NoRow]
            /\ pc' = [pc EXCEPT ![p] = "done"]
  /\ UNCHANGED << nextId, now, ticks, lastAutofillAt, pf, solo, hCall, hGate, hist, hPf >>
  /\ UNCHANGED side

\* the response has been sent; the poller may poll again
Return(p) ==
  /\ pc[p] = "done"
  /\ pc' = [pc EXCEPT ![p] = "idle"]
  /\ resp' = [resp EXCEPT ![p] = NoResp]
  /\ hStartDelivered' = [hStartDelivered EXCEPT ![p] = {}]
  /\ hSawPending' = [hSawPending EXCEPT ![p] = FALSE]
  /\ hStartRows' = {}
  /\ hSweptAt' = 0
  /\ hPf' = NoH
  /\ UNCHANGED << rows, nextId, now, ticks, lastAutofillAt, next, pf, solo, hCall, hGate >>
  /\ UNCHANGED side

\* POST /api/queue with a valid body: one pending row
Enqueue(u) ==
  /\ nextId <= MaxRows
  /\ solo => AllIdle
  /\ rows' = createRow(rows, nextId, u, now)
  /\ nextId' = nextId + 1
  /\ UNCHANGED << now, ticks, lastAutofillAt, pc, next, pf, resp, solo, hCall, hGate, hist, hPf >>
  /\ UNCHANGED side

\* time passes
Tick(d) ==
  /\ ticks < MaxTicks
  /\ now' = now + d
  /\ ticks' = ticks + 1
  /\ UNCHANGED << rows, nextId, lastAutofillAt, pc, next, pf, resp, solo, hCall, hGate, hist, hPf >>
  /\ UNCHANGED side

Next ==
  \/ \E p \in Pollers :
       \/ Poll(p) \/ PfCount(p) \/ PfExists(p) \/ PfCreate(p)
       \/ Peek(p) \/ Peek2(p) \/ Count(p) \/ Count2(p)
       \/ Mark(p) \/ Return(p)
  \/ \E u \in Urls : Enqueue(u)
  \/ \E d \in TickSizes : Tick(d)

\* the polls of the encoder alone: every row comes from an autofill run
NextAuto ==
  \/ \E p \in Pollers :
       \/ Poll(p) \/ PfCount(p) \/ PfExists(p) \/ PfCreate(p)
       \/ Peek(p) \/ Peek2(p) \/ Count(p) \/ Count2(p)
       \/ Mark(p) \/ Return(p)
  \/ \E d \in TickSizes : Tick(d)

\* overlapping polls, user enqueues and the clock, in any interleaving
Spec     == Init /\ [][Next]_vars
\* polls and user enqueues one at a time
SpecSolo == InitSolo /\ [][Next]_vars
\* overlapping polls on a store that only autofill runs write to
SpecAuto == Init /\ [][NextAuto]_vars

\* =========================================================== /api/queue
\* Strings of a request are sequences of pieces: one character, or a piece
\* of a URL that the patterns of the handler read as a whole.
Rep(c, n) == [i \in 1..n |-> c]

\* JSON values of a field: absent, null, a number, a string
Undef  == [t |-> "undefined"]
JNull  == [t |-> "null"]
JNum   == [t |-> "number"]
Str(x) == [t |-> "string", s |-> x]

IsSpace(c) == c \in {" ", "\t"}

RECURSIVE TrimStart(_)
TrimStart(x) ==
  IF x # << >> /\ IsSpace(Head(x)) THEN TrimStart(Tail(x)) ELSE x

RECURSIVE TrimEnd(_)
TrimEnd(x) ==
  IF x # << >> /\ IsSpace(x[Len(x)])
  THEN TrimEnd(SubSeq(x, 1, Len(x) - 1)) ELSE x

\* String.prototype.trim
trim(x) == TrimEnd(TrimStart(x))

\* the `i` flag of a pattern: pieces compare in lower case
Lower(c) ==
  CASE c = "HTTPS://" -> "https://"
    [] c = "WWW." -> "www."
    [] c = "YouTu.be/" -> "youtu.be/"
    [] c = "Live" -> "live"
    [] c = "Ao Vivo" -> "ao vivo"
    [] c = "Song" -> "song"
    [] c = "Other" -> "other"
    [] c = "Ana" -> "ana"
    [] c = "Bob" -> "bob"
    [] c = "Feat" -> "feat"
    [] c = "Topic" -> "topic"
    [] c = "VEVO" -> "vevo"
    [] OTHER -> c

\* [a-zA-Z0-9_-] among the characters of the model
IdChars == {"a", "B", "7", "_", "-"}

\* /^[a-zA-Z0-9_-]{6,20}$/.test(id)
isLikelyYouTubeVideoId(id) ==
  /\ Len(id) >= 6 /\ Len(id) <= 20
  /\ \A i \in 1..Len(id) : id[i] \in IdChars

\* an optional group of a pattern at the head of x
SkipOpt(x, group) ==
  IF x # << >> /\ Lower(Head(x)) \in group THEN Tail(x) ELSE x

\* /^(https?:\/\/)?(www\.)?(youtube\.com\/watch\?v=|youtu\.be\/|
\*   music\.youtube\.com\/watch\?v=)/i.test(url.trim())
isValidYouTubeUrl(url) ==
  LET u == trim(url)
      h == SkipOpt(SkipOpt(u, {"http://", "https://"}), {"www."})
  IN  /\ u # << >>
      /\ h # << >>
      /\ Lower(Head(h)) \in {"youtube.com/watch?v=", "youtu.be/",
                             "music.youtube.com/watch?v="}

\* a ?? b
Coalesce(a, b) == IF a.t \in {"undefined", "null"} THEN b ELSE a

\* the pieces of a string written out as the string the store keeps
RECURSIVE Join(_)
Join(x) == IF x = << >> THEN "" ELSE Head(x) \o Join(Tail(x))

qAnswer(st, m) == [op |-> "POST", status |-> st, msg |-> m, id |-> 0,
                   items |-> << >>]

\* POST up to the store: `request.json()`, the fields read and trimmed, the
\* four checks.  The result is the response, or "create" with the youtubeUrl
\* to insert.  `.trim()` of a value that is not a string, and the read of a
\* field of a body that is null, throw a TypeError the handler does not
\* catch: it returns no response (status 0).
postChecks(b) ==
  IF b.json = "invalid" THEN qAnswer(400, "JSON invalido.")
  ELSE IF b.json = "null" THEN qAnswer(0, "TypeError")
  ELSE
    LET vid == Coalesce(Coalesce(b.videoId, b.recordingMbid), Str(<< >>))
        tn  == Coalesce(b.trackName, Str(<< >>))
        an  == Coalesce(b.artistName, Str(<< >>))
        yu  == Coalesce(b.youtubeUrl, Str(<< >>))
    IN
    IF \E v \in {vid, tn, an, yu} : v.t # "string"
    THEN qAnswer(0, "TypeError")
    ELSE IF trim(vid.s) = << >>
    THEN qAnswer(400, "videoId (ou recordingMbid) e obrigatorio.")
    ELSE IF ~isLikelyYouTubeVideoId(trim(vid.s))
    THEN qAnswer(400, "videoId invalido.")
    ELSE IF trim(tn.s) = << >> \/ trim(an.s) = << >> \/ trim(yu.s) = << >>
    THEN qAnswer(400, "trackName, artistName e youtubeUrl sao obrigatorios.")
    ELSE IF ~isValidYouTubeUrl(trim(yu.s))
    THEN qAnswer(400, "Link do YouTube invalido.")
    ELSE [op |-> "create", url |-> Join(trim(yu.s))]

\* request bodies
VideoIds ==
  {Undef, JNull, JNum, Str(<< " " >>), Str(Rep("a", 5)), Str(Rep("a", 6)),
   Str(<< " " >> \o Rep("7", 6) \o << " " >>), Str(Rep("B", 20)),
   Str(Rep("a", 21)), Str(Rep("a", 5) \o << "!" >>)}
Names == {Undef, JNum, Str(<< >>), Str(<< " " >>), Str(<< "x" >>)}
Links ==
  {Undef, JNum, Str(<< " " >>),
   Str(<< "https://", "youtube.com/watch?v=", "a" >>),
   Str(<< " ", "HTTPS://", "WWW.", "YouTu.be/", "a", " " >>),
   Str(<< "music.youtube.com/watch?v=", "b" >>),
   Str(<< "https://", "notyoutube.com/", "x" >>),
   Str(<< "x", "youtu.be/", "a" >>)}
Bodies ==
  {[json |-> "invalid"], [json |-> "null"]} \cup
  [json : {"object"}, videoId : VideoIds,
   recordingMbid : {Undef, Str(Rep("_", 6))},
   trackName : Names, artistName : Names, youtubeUrl : Links]

\* POST /api/queue
Post ==
  /\ qreq # NoBody /\ qresp = NoQResp
  /\ LET c == postChecks(qreq) IN
       IF c.op = "create"
       THEN /\ nextId <= MaxRows
            /\ rows' = createRow(rows, nextId, c.url, now)
            /\ nextId' = nextId + 1
            /\ qresp' = [qAnswer(201, "") EXCEPT !.id = nextId]
       ELSE /\ qresp' = c
            /\ UNCHANGED << rows, nextId >>
  /\ UNCHANGED << now, ticks, lastAutofillAt, pc, next, pf, resp, solo, hCall, hGate, hist, hPf,
                  fresh, qreq, ytIn, ytOut >>
  /\ UNCHANGED more

\* the response has been sent; the same client may post again
QReturn ==
  /\ qresp # NoQResp
  /\ qresp' = NoQResp
  /\ UNCHANGED << rows, nextId, now, ticks, lastAutofillAt, pc, next, pf, resp,
                  solo, hCall, hGate, hist, hPf, fresh, qreq, ytIn, ytOut >>
  /\ UNCHANGED more

InitPost ==
  /\ InitStore(TRUE) /\ hGate = NoGate /\ fresh = FALSE
  /\ qreq \in Bodies
  /\ qresp = NoQResp /\ ytIn = << >> /\ ytOut = NoYt
  /\ InitMore

NextPost == Post \/ QReturn

\* POST /api/queue on every request body, again and again
SpecPost == InitPost /\ [][NextPost]_vars

\* the first row of a non-empty set under orderBy createdAt asc, id asc
FirstRow(rs) ==
  CHOOSE r \in rs : \A o \in rs :
    o = r \/ r.createdAt < o.createdAt
          \/ (r.createdAt = o.createdAt /\ r.id < o.id)

RECURSIVE OrderRows(_)
OrderRows(rs) ==
  IF rs = {} THEN << >>
  ELSE << FirstRow(rs) >> \o OrderRows(rs \ {FirstRow(rs)})

\* mutant: the listing forgets `where: { deleteAt: null }`
listEverything(rs) == OrderRows(rs)

\* findMany({ where: { deleteAt: null },
\*            orderBy: [{ createdAt: 'asc' }, { id: 'asc' }] })
listPending(rs) == OrderRows({r \in rs : r.deleteAt = Null})

\* GET /api/queue
List ==
  /\ qresp = NoQResp
  /\ qresp' = [op |-> "GET", status |-> 200, msg |-> "", id |-> 0,
               items |-> listPending(rows)]
  /\ UNCHANGED << rows, nextId, now, ticks, lastAutofillAt, pc, next, pf, resp,
                  solo, hCall, hGate, hist, hPf, fresh, qreq, ytIn, ytOut >>
  /\ UNCHANGED more

\* the listing next to polls and user enqueues that come one at a time
NextQueue ==
  \/ \E p \in Pollers :
       \/ Poll(p) \/ PfCount(p) \/ PfExists(p) \/ PfCreate(p)
       \/ Peek(p) \/ Peek2(p) \/ Count(p) \/ Count2(p)
       \/ Mark(p) \/ Return(p)
  \/ \E u \in Urls : Enqueue(u)
  \/ \E d \in TickSizes : Tick(d)
  \/ List
  \/ QReturn

SpecQueue == InitSolo /\ [][NextQueue]_vars

\* =========================================================== the resolver
\* Titles and album names are sequences of pieces: a word (or one of the
\* two-word phrases of the patterns), a white space, a bracket, a separator.
WordPieces == {"song", "hits", "live", "Live", "alive", "at", "ao vivo",
               "Ao Vivo", "directo"}
LiveWords  == {"live", "ao vivo", "en vivo", "en directo", "directo"}
Openers    == {"(", "["}
Closers    == {")", "]"}
Separators == {"-", "|"}

\* \b on both sides of the piece at position j
WordAt(x, j) ==
  /\ j = 1 \/ x[j - 1] \notin WordPieces
  /\ j = Len(x) \/ x[j + 1] \notin WordPieces

\* \b after the piece at position j
WordEndsAt(x, j) == j = Len(x) \/ x[j + 1] \notin WordPieces

\* \s* from position j on: the position of the first piece that is no space
RECURSIVE SkipSpaces(_, _)
SkipSpaces(x, j) ==
  IF j <= Len(x) /\ IsSpace(x[j]) THEN SkipSpaces(x, j + 1) ELSE j

\* (?:\s[-|]\s*)(live|ao vivo|...)\b at position i: the position of the word
LiveAfterSeparatorAt(x, i) ==
  IF i + 1 <= Len(x) /\ IsSpace(x[i]) /\ x[i + 1] \in Separators
  THEN LET j == SkipSpaces(x, i + 2) IN
         IF j <= Len(x) /\ Lower(x[j]) \in LiveWords /\ WordEndsAt(x, j)
         THEN j ELSE 0
  ELSE 0

isLikelyLiveRecording(title, albumName) ==
  LET t == trim(title)
      a == trim(albumName)
      liveInBrackets ==
        \E i, j, k \in 1..Len(t) :
          /\ i < j /\ j < k
          /\ t[i] \in Openers /\ t[k] \in Closers
          /\ Lower(t[j]) \in LiveWords /\ WordAt(t, j)
      liveAfterSeparator ==
        \E i \in 1..Len(t) : LiveAfterSeparatorAt(t, i) # 0
      liveAtFromAfterSeparator ==
        \E i \in 1..Len(t) :
          LET j == LiveAfterSeparatorAt(t, i) IN
            /\ j # 0 /\ Lower(t[j]) = "live"
            /\ j + 1 <= Len(t) /\ IsSpace(t[j + 1])
            /\ LET k == SkipSpaces(t, j + 1) IN
                 k <= Len(t) /\ Lower(t[k]) \in {"at", "from"}
                             /\ WordEndsAt(t, k)
      liveAlbum ==
        \/ a # << >> /\ Lower(a[1]) = "live" /\ WordEndsAt(a, 1)
        \/ \E j \in 1..Len(a) :
             Lower(a[j]) \in (LiveWords \ {"live"}) /\ WordAt(a, j)
  IN liveInBrackets \/ liveAfterSeparator \/ liveAtFromAfterSeparator
       \/ liveAlbum

\* (typeof a === 'string' && a) || (typeof b === 'string' && b)
FirstString(a, b) ==
  IF a.t = "string" /\ a.s # << >> THEN a.s
  ELSE IF b.t = "string" /\ b.s # << >> THEN b.s
  ELSE << >>

\* the fields the loop reads from an item of the search
videoIdOf(it) == FirstString(it.id, it.video_id)
titleOf(it)   == FirstString(it.title, it.name)
artistOf(it)  == FirstString(it.artist, it.author)
albumOf(it)   == FirstString(it.album, Undef)

\* `https://youtube.com/watch?v=${encodeURIComponent(videoId)}`
youtubeUrlOf(it) == << "https://", "youtube.com/watch?v=" >> \o videoIdOf(it)

\* mutant: the live check is left out
takesLive(it) ==
  /\ videoIdOf(it) # << >> /\ titleOf(it) # << >> /\ artistOf(it) # << >>
  /\ isValidYouTubeUrl(youtubeUrlOf(it))

\* the item passes the three `continue` of the loop
takes(it) ==
  /\ videoIdOf(it) # << >> /\ titleOf(it) # << >> /\ artistOf(it) # << >>
  /\ ~isLikelyLiveRecording(titleOf(it), albumOf(it))
  /\ isValidYouTubeUrl(youtubeUrlOf(it))

\* `for (const it of items)` from rank i on
RECURSIVE scanItems(_, _, _)
scanItems(items, q, i) ==
  IF i > Len(items) THEN NoYt
  ELSE IF takes(items[i])
  THEN [kind |-> "track", q |-> q, i |-> i, url |-> Join(youtubeUrlOf(items[i]))]
  ELSE scanItems(items, q, i + 1)

\* `for (const q of queries)` from query q on; a search that throws ends
\* the call with that error
RECURSIVE scanQueries(_, _)
scanQueries(results, q) ==
  IF q > Len(results) THEN [NoYt EXCEPT !.kind = "none"]
  ELSE IF results[q].throws THEN [NoYt EXCEPT !.kind = "throws"]
  ELSE LET r == scanItems(results[q].items, q, 1) IN
         IF r # NoYt THEN r ELSE scanQueries(results, q + 1)

searchYouTubeMusicFirstSong(results) == scanQueries(results, 1)

\* items of a search
Item(id, vid, title, artist, album) ==
  [id |-> id, video_id |-> vid, title |-> title, name |-> Undef,
   artist |-> artist, author |-> Undef, album |-> album]

ItGood    == Item(Str(<< "v1" >>), Undef, Str(<< "song" >>), Str(<< "x" >>), Undef)
ItAlive   == Item(JNum, Str(<< "v2" >>), Str(<< "alive" >>), Str(<< "x" >>),
                  Str(<< "hits", " ", "Live" >>))
ItNoId    == Item(Undef, Str(<< >>), Str(<< "song" >>), Str(<< "x" >>), Undef)
ItNoArtist == Item(Str(<< "v3" >>), Undef, Str(<< "song" >>), Undef, Undef)
ItLiveBr  == Item(Str(<< "v4" >>), Undef,
                  Str(<< "song", " ", "(", "Live", " ", "at", ")" >>),
                  Str(<< "x" >>), Undef)
ItLiveSep == Item(Str(<< "v5" >>), Undef,
                  Str(<< "song", " ", "-", " ", "Ao Vivo" >>),
                  Str(<< "x" >>), Undef)
ItLiveAlbum == Item(Str(<< "v6" >>), Undef, Str(<< "song" >>), Str(<< "x" >>),
                    Str(<< "Live", " ", "at" >>))
ItNoSpaceSep == Item(Str(<< "v7" >>), Undef, Str(<< "song", "-", "live" >>),
                     Str(<< "x" >>), Undef)

Items     == {ItGood, ItAlive, ItNoId, ItNoArtist, ItLiveBr, ItLiveSep,
              ItLiveAlbum, ItNoSpaceSep}
PairItems == {ItGood, ItAlive, ItNoId, ItLiveBr}

\* what one search returns: it throws, or a ranked list
SearchResults ==
  {[throws |-> TRUE, items |-> << >>]} \cup
  {[throws |-> FALSE, items |-> l] :
     l \in {<< >>} \cup {<< a >> : a \in Items}
           \cup {<< a, b >> : a, b \in PairItems}}

\* searchYouTubeMusicFirstSong(query)
Resolve ==
  /\ ytIn # << >> /\ ytOut = NoYt
  /\ ytOut' = searchYouTubeMusicFirstSong(ytIn)
  /\ UNCHANGED << rows, nextId, now, ticks, lastAutofillAt, pc, next, pf, resp,
                  solo, hCall, hGate, hist, hPf, fresh, qreq, qresp, ytIn >>
  /\ UNCHANGED more

\* the three queries (query, `official audio`, `audio`) and their results
InitResolver ==
  /\ InitStore(TRUE) /\ hGate = NoGate /\ fresh = FALSE
  /\ qreq = NoBody /\ qresp = NoQResp
  /\ ytIn \in [1..3 -> SearchResults]
  /\ ytOut = NoYt
  /\ InitMore

NextResolver == Resolve

SpecResolver == InitResolver /\ [][NextResolver]_vars

\* from some point on the recommendation source and the resolver always
\* have one more track that is not in the store
Recover ==
  /\ ~fresh /\ AllIdle
  /\ fresh' = TRUE
  /\ UNCHANGED << rows, nextId, now, ticks, lastAutofillAt, pc, next, pf, resp,
                  solo, hCall, hGate, hist, hPf, qreq, qresp, ytIn, ytOut >>
  /\ UNCHANGED more

NextFresh == Next \/ Recover

\* polls and user enqueues one at a time; the source recovers at some point
SpecFresh == InitSolo /\ [][NextFresh]_vars


\* =========================================================== properties

\* poll p has just answered (the step into "done")
Answers(p) == pc[p] # "done" /\ pc'[p] = "done"

\* the rows a step moves from pending to delivered
NewlyDelivered ==
  {r \in rows : r.deleteAt = Null
                /\ \E r2 \in rows' : r2.id = r.id /\ r2.deleteAt # Null}

\* s is older than r: smaller createdAt, ties broken by id
Older(s, r) ==
  s.createdAt < r.createdAt \/ (s.createdAt = r.createdAt /\ s.id < r.id)

\* C1 as stated (no-redelivery, by playableUrl): a poll that starts after a
\* row was marked delivered never answers 200 with that row's playableUrl
\* while the row is still in the store.
C1_NoRedeliveryOfUrl ==
  \A p \in Pollers :
    pc[p] = "done" /\ resp[p].status = 200
      => ~ \E i \in hStartDelivered[p] : i \in Ids(rows)

\* C1 as amended (no-redelivery, by row): a poll that starts after a row was
\* marked delivered never selects and returns that row; its playableUrl is
\* returned again only through another row that carries the same URL.
C1_NoRedelivery ==
  \A p \in Pollers :
    pc[p] = "done" /\ resp[p].status = 200
      => /\ resp[p].id \notin hStartDelivered[p]
         /\ resp[p].id # 0

\* C1 witness: a poll answered 200 while a row that was delivered before the
\* poll started, and carries the URL returned, is still in the store.
C1_Witness ==
  \E p \in Pollers :
    /\ pc[p] = "done" /\ resp[p].status = 200
    /\ \E i \in hStartDelivered[p] : i \in Ids(rows) /\ i # resp[p].id

\* C2 as stated (no double delivery): two overlapping polls never both mark
\* the same row delivered and return its URL.
C2_NoDoubleDelivery ==
  \A p, q \in Pollers :
    (p # q /\ pc[p] = "done" /\ pc[q] = "done"
       /\ resp[p].status = 200 /\ resp[q].status = 200
       /\ resp[p].marked /\ resp[q].marked)
      => resp[p].id # resp[q].id

\* C3 as stated (buffer invariant): right after a poll marked a row
\* delivered, at least one pending row remains in the store.
C3_BufferInvariant ==
  [][\A p \in Pollers :
       (Answers(p) /\ resp'[p].marked) => HPending(rows') # {}]_vars

\* C4 (never-silent-empty): a poll none of whose reads saw a pending row
\* (no pending row exists and the autofill brought none) answers 500 or 502
\* with a non-empty diagnostic and no track; no answer is a 204 or carries
\* an empty body.
C4_NeverSilentEmpty ==
  \A p \in Pollers :
    pc[p] = "done" =>
      /\ resp[p].status \in {200, 500, 502}
      /\ resp[p].status = 200 => resp[p].url # ""
      /\ resp[p].status # 200 => resp[p].msg # ""
      /\ ~hSawPending[p] =>
           /\ resp[p].status \in {500, 502}
           /\ resp[p].url = "" /\ resp[p].id = 0

\* C4 witness: the forced autofill brought nothing and the re-read found no
\* row: 500 no-undelivered-tracks.
C4_Witness ==
  \E p \in Pollers :
    /\ pc[p] = "done" /\ ~hSawPending[p]
    /\ resp[p].status = 500 /\ HPending(rows) = {}

\* C5 as stated (FIFO): a row is never marked delivered while an older
\* pending row (smaller createdAt, ties broken by id) exists.
C5_Fifo ==
  [][\A r \in NewlyDelivered :
       \A s \in HPending(rows) : ~Older(s, r)]_vars

\* C6 as stated (de-duplication): on a store that starts with pairwise
\* distinct URLs and that only autofill runs write to, no two pending rows
\* carry the same playableUrl.
C6_Dedup ==
  \A r, s \in HPending(rows) : r.url = s.url => r.id = s.id

\* C7 as stated: no 200 response carries the URL of a row that is still
\* pending when the poll completes.
C7_NeverHandedWhilePending ==
  [][\A p \in Pollers :
       (Answers(p) /\ resp'[p].status = 200)
         => ~ \E r \in HPending(rows') : r.id = resp'[p].id]_vars

\* C7 as amended: a 200 response carries the URL of a row that is still
\* pending when the poll completes only when the poll returned it unmarked
\* because its count after the forced prefill found fewer than 2 pending.
C7_PendingOnlyIfLastTrack ==
  [][\A p \in Pollers :
       (Answers(p) /\ resp'[p].status = 200
          /\ \E r \in HPending(rows') : r.id = resp'[p].id)
         => /\ pc[p] = "count2"
            /\ Cardinality(HPending(rows)) <= 1
            /\ ~resp'[p].marked]_vars

\* C7 witness: a poll answered 200 with a row that is still pending.
C7_Witness ==
  \E p \in Pollers :
    /\ pc[p] = "done" /\ resp[p].status = 200 /\ ~resp[p].marked
    /\ \E r \in HPending(rows) : r.id = resp[p].id

\* C8 (a poll alone, two or more pending rows): it answers 200 with the URL
\* of an oldest pending row, sets deleteAt on exactly that row, leaves every
\* other row as it was (the pending ones pending) and inserts no row; only
\* the sweep removes rows, and only expired ones.
C8_DeliverOldestOfTwo ==
  \A p \in Pollers :
    (pc[p] = "done" /\ Cardinality(HPending(hStartRows)) >= 2) =>
      /\ resp[p].status = 200 /\ resp[p].marked
      /\ \E a \in HPending(hStartRows) :
           /\ a.id = resp[p].id /\ a.url = resp[p].url
           /\ \A s \in HPending(hStartRows) : a.createdAt <= s.createdAt
           /\ \E a2 \in rows :
                a2.deleteAt # Null /\ a = [a2 EXCEPT !.deleteAt = Null]
           /\ HPending(hStartRows) \ {a} = HPending(rows)
      /\ Ids(rows) \subseteq Ids(hStartRows)
      /\ \A r \in rows : r.id # resp[p].id => r \in hStartRows
      /\ \A r \in hStartRows \ rows :
           r.id = resp[p].id \/ (r.deleteAt # Null /\ r.deleteAt <= now)

\* C8 witness: a poll that started alone on two or more pending rows answered.
C8_Witness ==
  \E p \in Pollers :
    /\ pc[p] = "done" /\ Cardinality(HPending(hStartRows)) >= 2
    /\ resp[p].status = 200 /\ Cardinality(rows) >= 2

\* C9 as stated: a poll moves at most one row from pending to delivered, the
\* row whose URL it returns, and that row is the oldest pending row (by
\* createdAt, ties broken by id).
C9_OneOldestRow ==
  [][\A p \in Pollers :
       Answers(p) =>
         /\ Cardinality(NewlyDelivered) <= 1
         /\ \A r \in NewlyDelivered :
              /\ resp'[p].marked
              /\ r.id = resp'[p].id /\ r.url = resp'[p].url
              /\ \A s \in HPending(rows) : s.id # r.id => Older(r, s)]_vars

\* C10 (no undelete): no step sets a non-null deleteAt back to null, removes
\* a pending row, or brings a removed row back; a row appears only as a new
\* pending row.
C10_NoUndelete ==
  [][/\ \A r \in rows : \A r2 \in rows' :
          (r2.id = r.id /\ r.deleteAt # Null) => r2.deleteAt # Null
     /\ \A r \in HPending(rows) : r.id \in Ids(rows')
     /\ \A r2 \in rows' :
          r2.id \notin Ids(rows) => (r2.id = nextId /\ r2.deleteAt = Null)
     /\ nextId' >= nextId]_vars

\* C10 witness: a row was delivered and the sweep removed it, while another
\* delivered row is in the store.
C10_Witness ==
  /\ \E i \in 1..(nextId - 1) : i \notin Ids(rows)
  /\ HDelivered(rows) # {}

\* the request body passes the validation the contract names: the external
\* id (videoId, else recordingMbid) matches the identifier pattern, track
\* name, artist name and URL are non-empty after trimming, the URL matches
\* the media-link pattern
ValidBody(b) ==
  /\ b.json = "object"
  /\ LET vid == Coalesce(Coalesce(b.videoId, b.recordingMbid), Str(<< >>)) IN
       vid.t = "string" /\ isLikelyYouTubeVideoId(trim(vid.s))
  /\ \A f \in {b.trackName, b.artistName, b.youtubeUrl} :
       f.t = "string" /\ trim(f.s) # << >>
  /\ isValidYouTubeUrl(b.youtubeUrl.s)

\* C11 as stated (POST /api/queue): a body that passes the validation gets
\* 201 and exactly one new pending row; every other body gets 400 with a
\* non-empty message and no store write.
C11_PostValidates ==
  [][(qresp = NoQResp /\ qresp' # NoQResp) =>
       IF ValidBody(qreq)
       THEN /\ qresp'.status = 201
            /\ \E r \in rows' :
                 /\ rows' = rows \cup {r} /\ r \notin rows
                 /\ r.id = qresp'.id /\ r.deleteAt = Null /\ r.url # ""
       ELSE /\ qresp'.status = 400 /\ qresp'.msg # ""
            /\ rows' = rows]_vars

\* the poll is inside ensurePrefill
InPrefill(p) == pc[p] \in {"pf_count", "pf_exists", "pf_create"}

\* C12 (responses of GET /api/liquidsoap): every answer is a 200 whose body
\* is youtube-dl:{playableUrl} and a newline, with a non-empty playableUrl of
\* a row the poll read; or a 502 with a one-line diagnostic, given only when
\* the autofill threw a recommendation failure (the network error, or the
\* run that found no pending row and inserted none, outside step 4); or a
\* 500 with a one-line diagnostic, given only when the re-read after the
\* forced refill found no pending row.  No answer is a 204 or empty.
C12_Responses ==
  [][\A p \in Pollers : Answers(p) =>
       \/ /\ resp'[p].status = 200
          /\ resp'[p].url # "" /\ resp'[p].url = next[p].url
          /\ body(resp'[p]) = "youtube-dl:" \o next[p].url \o "\n"
          /\ pc[p] \in {"count2", "mark"}
       \/ /\ resp'[p].status = 502 /\ InPrefill(p)
          /\ \/ resp'[p].msg = "listenbrainz-network"
             \/ /\ resp'[p].msg = "listenbrainz-error"
                /\ pf[p].site # 4
                /\ IF pc[p] = "pf_count"
                   THEN countUndeliveredPlayable(rows) = 0
                   ELSE pf[p].und = 0 /\ pf[p].inserted = 0
          /\ body(resp'[p]) = resp'[p].msg \o "\n"
       \/ /\ resp'[p].status = 500 /\ pc[p] = "peek2"
          /\ resp'[p].msg = "internal-error:no-undelivered-tracks"
          /\ UndeliveredPlayable(rows) = {}
          /\ body(resp'[p]) = resp'[p].msg \o "\n"]_vars

\* C12 witness: a poll answered 502 because its autofill found no pending
\* row and inserted none, while another poll answered 200.
C12_Witness ==
  \E p, q \in Pollers :
    /\ pc[p] = "done" /\ resp[p].status = 502
    /\ resp[p].msg = "listenbrainz-error"
    /\ pc[q] = "done" /\ resp[q].status = 200

\* C13 (GET /api/queue): the answer lists exactly the rows with deleteAt =
\* null, each once, oldest first (createdAt ascending, then id), and the
\* call changes no row, no id counter, no cooldown state and no poll.
C13_ListPending ==
  [][(qresp = NoQResp /\ qresp'.op = "GET") =>
       LET items == qresp'.items IN
       /\ qresp'.status = 200
       /\ {items[i] : i \in 1..Len(items)} = {r \in rows : r.deleteAt = Null}
       /\ Len(items) = Cardinality({r \in rows : r.deleteAt = Null})
       /\ \A i, j \in 1..Len(items) : i < j => Older(items[i], items[j])
       /\ UNCHANGED << rows, nextId, lastAutofillAt, now, pc, next, pf,
                       resp >>]_vars

\* C13 witness: a listing of two pending rows of equal createdAt, given
\* while a delivered row is in the store.
C13_Witness ==
  /\ qresp.op = "GET" /\ Len(qresp.items) = 2
  /\ qresp.items[1].createdAt = qresp.items[2].createdAt
  /\ \E r \in rows : r.deleteAt # Null

\* poll p runs its sweep (step 0 of the handler)
SweepStep(p) == pc[p] = "idle" /\ pc'[p] # "idle"

\* poll p reads the oldest pending row (step 2, or the re-read of step 3)
ReadStep(p) == pc[p] \in {"peek", "peek2"} /\ pc'[p] # pc[p]

\* C14 as stated (sweep): the sweep of a poll removes exactly the rows with
\* deleteAt <= now, and when the poll reads the oldest pending row no row
\* with deleteAt <= now (the clock at the read) is in the store.
C14_NoExpiredAtRead ==
  [][\A p \in Pollers :
       /\ SweepStep(p) =>
            rows' = {r \in rows : r.deleteAt = Null \/ r.deleteAt > now}
       /\ ReadStep(p) =>
            \A r \in rows : r.deleteAt = Null \/ r.deleteAt > now]_vars

\* C14 as amended: the sweep of a poll removes exactly the rows with
\* deleteAt <= now, never a pending row and never a delivered row whose
\* deleteAt is in the future; when the poll reads the oldest pending row no
\* row with deleteAt <= the clock of the sweep is in the store (a row that
\* expires between the sweep and the read stays until the next sweep).
C14_SweepExact ==
  [][\A p \in Pollers :
       /\ SweepStep(p) =>
            /\ rows' = {r \in rows : r.deleteAt = Null \/ r.deleteAt > now}
            /\ HPending(rows) \subseteq rows'
            /\ hSweptAt' = now
       /\ ReadStep(p) =>
            \A r \in rows : r.deleteAt = Null \/ r.deleteAt > hSweptAt]_vars

\* C14 witness: the sweep of the poll removed an expired row and kept a
\* pending one, and the poll is about to read.
C14_Witness ==
  \E p \in Pollers :
    /\ pc[p] = "peek"
    /\ \E r \in hStartRows : r.deleteAt # Null /\ r.id \notin Ids(rows)
    /\ HPending(rows) # {}

\* the items of the searches in the order the resolver reads them: query
\* order, then rank
Before(q1, i1, q2, i2) == q1 < q2 \/ (q1 = q2 /\ i1 < i2)

\* the item has an id, a title and an artist, is not classified as live and
\* yields a recognized media URL
Acceptable(it) ==
  /\ FirstString(it.id, it.video_id) # << >>
  /\ FirstString(it.title, it.name) # << >>
  /\ FirstString(it.artist, it.author) # << >>
  /\ ~isLikelyLiveRecording(FirstString(it.title, it.name),
                            FirstString(it.album, Undef))
  /\ isValidYouTubeUrl(<< "https://", "youtube.com/watch?v=" >>
                         \o FirstString(it.id, it.video_id))

\* C15 (resolver): a track returned is the first acceptable item in query
\* order and then ranked order, and is not classified as live; none is
\* returned exactly when every item of every query is rejected; the call
\* throws only when a search threw before any acceptable item was found.
C15_FirstAcceptable ==
  ytOut # NoYt =>
    /\ ytOut.kind \in {"track", "none", "throws"}
    /\ ytOut.kind = "track" =>
         /\ ytOut.q \in 1..3 /\ ~ytIn[ytOut.q].throws
         /\ ytOut.i \in 1..Len(ytIn[ytOut.q].items)
         /\ Acceptable(ytIn[ytOut.q].items[ytOut.i])
         /\ \A q \in 1..3 : \A i \in 1..Len(ytIn[q].items) :
              Before(q, i, ytOut.q, ytOut.i) => ~Acceptable(ytIn[q].items[i])
         /\ \A q \in 1..3 : q < ytOut.q => ~ytIn[q].throws
    /\ ytOut.kind = "none" =>
         \A q \in 1..3 :
           /\ ~ytIn[q].throws
           /\ \A i \in 1..Len(ytIn[q].items) : ~Acceptable(ytIn[q].items[i])
    /\ ytOut.kind = "throws" =>
         \E q \in 1..3 :
           /\ ytIn[q].throws
           /\ \A q0 \in 1..(q - 1) :
                /\ ~ytIn[q0].throws
                /\ \A i \in 1..Len(ytIn[q0].items) :
                     ~Acceptable(ytIn[q0].items[i])

\* C15 witness: the track returned is the second item of the second query,
\* after a live item, and the first query had only live items.
C15_Witness ==
  /\ ytOut.kind = "track" /\ ytOut.q = 2 /\ ytOut.i = 2
  /\ ytIn[2].items[1] = ItLiveBr
  /\ ytIn[1].items = << ItLiveSep >>

\* poll p leaves ensurePrefill: it returned or threw
PrefillEndStep(p) == InPrefill(p) /\ pc'[p] \notin {"pf_count", "pf_exists", "pf_create"}

\* C16 as stated (a poll alone, one pending row, step 4): whatever way the
\* forced replenish of step 4 ends, the recommendation source failing
\* included, the poll goes on to answer 200 with the URL of the row it read.
C16_ToleratesSourceFailure ==
  [][\A p \in Pollers :
       (PrefillEndStep(p) /\ pf[p].site = 4
          /\ Cardinality(UndeliveredPlayable(rows)) = 1)
         => /\ pc'[p] = "count2"
            /\ next'[p] = next[p] /\ resp'[p] = NoResp]_vars

C18_OnlyNetworkFails ==
  [][\A p \in Pollers :
       (PrefillEndStep(p) /\ pc'[p] = "done")
         => \/ resp'[p].status = 500
            \/ resp'[p].status = 502 /\ resp'[p].msg = "listenbrainz-network"]_vars

\* C18 as amended: the call fails out of an autofill only with the 502 of a
\* recommendation network failure, or, at steps 1 and 3, with the 502 of an
\* autofill that found no pending row and inserted none; any other end of
\* the autofill, an error included, lets the call go on: to the read of the
\* oldest pending row at steps 1 and 3, to the recount at step 4.
C18_FailsOnNetworkOrEmpty ==
  [][\A p \in Pollers :
       PrefillEndStep(p) =>
         IF pc'[p] = "done"
         THEN /\ resp'[p].status = 502
              /\ \/ resp'[p].msg = "listenbrainz-network"
                 \/ /\ resp'[p].msg = "listenbrainz-error"
                    /\ pf[p].site \in {1, 3}
                    /\ UndeliveredPlayable(rows') = {}
         ELSE /\ resp'[p] = NoResp /\ next'[p] = next[p]
              /\ pc'[p] = (CASE pf[p].site = 1 -> "peek"
                             [] pf[p].site = 3 -> "peek2"
                             [] pf[p].site = 4 -> "count2")]_vars

\* C18 witness: the forced autofill of step 3 ended with an error that is
\* swallowed, the call went on to the re-read, found no row, answered 500.
C18_Witness ==
  \E p \in Pollers :
    /\ solo /\ pc[p] = "done" /\ resp[p].status = 500
    /\ hStartRows = {} /\ rows = {}

\* C19 (encoder never starved): once every recommendation call yields
\* tracks that resolve to URLs not in the store, every poll that runs alone,
\* from any reachable store, answers 200 with a row that was not delivered
\* when the poll started and is delivered (marked by this poll) when it
\* answers, so that successive polls return distinct rows.
C19_NeverStarved ==
  \A p \in Pollers :
    (fresh /\ pc[p] = "done") =>
      /\ resp[p].status = 200 /\ resp[p].marked
      /\ resp[p].id \notin Ids(HDelivered(hStartRows))
      /\ \E r \in HDelivered(rows) :
           r.id = resp[p].id /\ r.url = resp[p].url
      /\ HPending(rows) # {}

\* C19 witness: a poll that started on a store without a pending row, with
\* the cooldown running, answered 200 after the source had recovered.
C19_Witness ==
  \E p \in Pollers :
    /\ fresh /\ pc[p] = "done" /\ resp[p].status = 200
    /\ HPending(hStartRows) = {}
    /\ hSweptAt - lastAutofillAt < AUTOFILL_COOLDOWN_MS

\* C20 as stated (marking is conditional): no step changes the deleteAt of
\* a row that is already delivered.
C20_MarkOnlyPending ==
  [][\A r \in rows : \A r2 \in rows' :
       (r2.id = r.id /\ r.deleteAt # Null) => r2.deleteAt = r.deleteAt]_vars

\* ========================================================= the cooldown
\* less than the cooldown passes on the clock
Pause ==
  /\ ticks < MaxPauses
  /\ now' = now + PauseMs
  /\ ticks' = ticks + 1
  /\ UNCHANGED << rows, nextId, lastAutofillAt, pc, next, pf, resp, solo,
                  hist, hCall, hGate, hPf >>
  /\ UNCHANGED side

NextCooldown ==
  \/ \E p \in Pollers :
       \/ Poll(p) \/ PfCount(p) \/ PfExists(p) \/ PfCreate(p)
       \/ Peek(p) \/ Peek2(p) \/ Count(p) \/ Count2(p)
       \/ Mark(p) \/ Return(p)
  \/ \E u \in Urls : Enqueue(u)
  \/ Pause

\* polls and user enqueues one at a time, less than a cooldown apart
SpecCooldown == InitSolo /\ [][NextCooldown]_vars

\* the steps on which poll p calls ensurePrefill: without opts at step 1,
\* with { force: true } at steps 3 and 4
CallsPlain(p)  == pc[p] = "idle" /\ pc'[p] # "idle"
CallsForced(p) ==
  \/ pc[p] = "peek" /\ pc'[p] \in {"pf_count", "peek2"}
  \/ pc[p] = "count" /\ pc'[p] \in {"pf_count", "count2"}
\* the call returns at once: no read, no fetch, no resolver, no insert, and
\* the handler goes on to its next step
CallIsNoOp(p) ==
  /\ pc'[p] \in {"peek", "peek2", "count2"}
  /\ pf' = pf /\ nextId' = nextId /\ lastAutofillAt' = lastAutofillAt
  /\ Ids(rows') \subseteq Ids(rows)
\* the call passes the gate and goes on to its count
CallRuns(p) == pc'[p] = "pf_count" /\ lastAutofillAt' = now

\* C21 (as stated): a call without force less than a cooldown after the
\* previous call of ensurePrefill, whatever that call did, is a no-op; a
\* forced call always runs.
C21_NoOpAfterAnyCall ==
  [][\A p \in Pollers :
       /\ (CallsPlain(p) /\ hCall.at # Null
             /\ now - hCall.at < AUTOFILL_COOLDOWN_MS) => CallIsNoOp(p)
       /\ CallsForced(p) => CallRuns(p)]_vars

\* C21 (amended): a call without force is a no-op exactly when less than a
\* cooldown has passed since the last call that passed the gate (forced or
\* not, whatever its outcome); a call that the gate skipped does not restart
\* the window.  A forced call always runs.
C21_NoOpAfterLastRun ==
  [][\A p \in Pollers :
       /\ CallsPlain(p) =>
            IF hCall.ran # Null /\ now - hCall.ran < AUTOFILL_COOLDOWN_MS
            THEN CallIsNoOp(p) ELSE CallRuns(p)
       /\ CallsForced(p) => CallRuns(p)]_vars

\* a call without force has been skipped, some time after the last call
\* that ran and less than a cooldown after it
C21_Witness ==
  /\ hPf.kind = "skipped" /\ hPf.site = 1
  /\ hCall.ran # Null /\ hCall.at > hCall.ran
  /\ hCall.at - hCall.ran < AUTOFILL_COOLDOWN_MS

\* ----------------------------------------------------- one autofill run
\* the rows a run may insert after reading n pending rows
Allowed(n) ==
  IF n >= TARGET_UNDELIVERED_BEFORE_DELIVER THEN 0
  ELSE TARGET_UNDELIVERED_BEFORE_DELIVER - n
\* the run of poll p takes its count, inserts a row, or the last run ended
CountStep(p)  == pc[p] = "pf_count" /\ pc'[p] # "pf_count"
InsertStep(p) == pc[p] = "pf_create" /\ pc'[p] # "pf_create"
RunEnded(h)   == h.kind \in {"ok", "empty", "network", "other"}

\* C22: a run of the autofill inserts at most need = max(0, 2 - the pending
\* count it read) rows; with need = 0 it returns at once: no call of the
\* recommendation source or of the resolver (no error of theirs, no
\* candidate), and no insert.
C22_AtMostNeed ==
  [][\A p \in Pollers :
       /\ InsertStep(p) =>
            /\ pf[p].inserted < Allowed(pf[p].und)
            /\ Cardinality(rows') = Cardinality(rows) + 1
       /\ (CountStep(p) /\ Allowed(countUndeliveredPlayable(rows)) = 0) =>
            /\ pc'[p] = ContinueAt(pf[p].site)
            /\ rows' = rows /\ nextId' = nextId
       /\ RunEnded(hPf') => hPf'.ins <= Allowed(hPf'.und)]_vars

\* a run that read an empty queue has returned after inserting two rows
C22_Witness ==
  /\ hPf.kind = "ok" /\ hPf.und = 0
  /\ hPf.ins = TARGET_UNDELIVERED_BEFORE_DELIVER

ProducedNothing(h) == h.und = 0 /\ h.ins = 0

\* C23 (as stated): a run raises the "produced nothing" error exactly when
\* it read no pending row and inserted no row, and returns normally
\* otherwise.
C23_EmptyIffNothing ==
  RunEnded(hPf) =>
    IF ProducedNothing(hPf) THEN hPf.kind = "empty" ELSE hPf.kind = "ok"

\* C23 (amended): a run that neither the recommendation source nor the
\* resolver ends with an error of its own raises the "produced nothing"
\* error exactly when it read no pending row and inserted no row, and
\* returns normally otherwise.
C23_EmptyIffNothingAtEnd ==
  /\ hPf.kind = "empty" => ProducedNothing(hPf)
  /\ hPf.kind = "ok" => ~ProducedNothing(hPf)

\* a run has read an empty queue, inserted nothing and raised the error
C23_Witness ==
  hPf.kind = "empty" /\ ProducedNothing(hPf)

\* ================================== the loop of ensurePrefill over a batch
\* Names of tracks and artists are sequences of pieces: a word, or one
\* character that is not part of a word.
NotWord   == {" ", "\t", ".", "-", "\"", "(", ")"}
IsWord(c) == c \notin NotWord

\* String.prototype.toLowerCase
toLowerCase(x) == [k \in 1..Len(x) |-> Lower(x[k])]

\* .replace(/[“”"]/g, '')
DropQuotes(x) == SelectSeq(x, LAMBDA c : c # "\"")

\* .replace(/[()]/g, ' ')
SpaceParens(x) == [k \in 1..Len(x) |-> IF x[k] \in {"(", ")"} THEN " " ELSE x[k]]

\* .replace(/\s+/g, ' ')
RECURSIVE CollapseSpaces(_)
CollapseSpaces(x) ==
  IF x = << >> THEN << >>
  ELSE IF IsSpace(Head(x)) THEN << " " >> \o CollapseSpaces(TrimStart(x))
  ELSE << Head(x) >> \o CollapseSpaces(Tail(x))

ButLast(x) == SubSeq(x, 1, Len(x) - 1)

\* .replace(/\s+-\s+Topic$/i, '')
DropTopic(x) ==
  LET a == ButLast(x)
      b == TrimEnd(a)
      c == ButLast(b)
      d == TrimEnd(c)
  IN  IF /\ x # << >> /\ Lower(x[Len(x)]) = "topic"
         /\ Len(b) < Len(a) /\ b # << >> /\ b[Len(b)] = "-"
         /\ Len(d) < Len(c)
      THEN d ELSE x

\* .replace(/\s+VEVO$/i, '')
DropVevo(x) ==
  IF /\ x # << >> /\ Lower(x[Len(x)]) = "vevo"
     /\ Len(TrimEnd(ButLast(x))) < Len(ButLast(x))
  THEN TrimEnd(ButLast(x)) ELSE x

\* /\b(feat\.?|ft\.?)\b/i matches at piece k: the word stands alone
FeatAt(x, k) ==
  /\ Lower(x[k]) \in {"feat", "ft"}
  /\ k = 1 \/ ~IsWord(x[k - 1])
  /\ k = Len(x) \/ ~IsWord(x[k + 1])

\* .replace(/\b(feat\.?|ft\.?)\b.*$/i, '')
DropFeat(x) ==
  IF \E k \in 1..Len(x) : FeatAt(x, k)
  THEN SubSeq(x, 1, (CHOOSE k \in 1..Len(x) :
                       FeatAt(x, k) /\ \A j \in 1..(k - 1) : ~FeatAt(x, j)) - 1)
  ELSE x

normalizeArtist(raw) ==
  trim(CollapseSpaces(SpaceParens(DropQuotes(DropFeat(DropVevo(DropTopic(raw)))))))

normalizeTrackName(raw) ==
  trim(CollapseSpaces(DropQuotes(toLowerCase(raw))))

\* findFirst({ orderBy: { createdAt: 'desc' } }) on rows in creation order;
\* << >> stands for `lastPlayed?.trackName ?? ''` of an empty table
lastPlayedTrackName(rs) == IF rs = << >> THEN << >> ELSE rs[Len(rs)].title

titleKeyOf(c)  == normalizeTrackName(trim(c.title))
artistKeyOf(c) == toLowerCase(normalizeArtist(trim(c.artist)))
\* `${titleKey}::${artistKey}`
comboKeyOf(c)  == titleKeyOf(c) \o << "::" >> \o artistKeyOf(c)

\* `if (!title || !artist) continue`, the skip of the last played title and
\* the skip of a pair already seen
skips(c, lastPlayedKey, seen) ==
  \/ trim(c.title) = << >> \/ trim(c.artist) = << >>
  \/ lastPlayedKey # << >> /\ titleKeyOf(c) # << >>
       /\ titleKeyOf(c) = lastPlayedKey
  \/ titleKeyOf(c) # << >> /\ artistKeyOf(c) # << >>
       /\ comboKeyOf(c) \in seen

\* `if (titleKey && artistKey) seenComboKeys.add(comboKey)`
remember(c, seen) ==
  IF titleKeyOf(c) # << >> /\ artistKeyOf(c) # << >>
  THEN seen \cup {comboKeyOf(c)} ELSE seen

runNeed(rs) ==
  needOf(Cardinality({k \in 1..Len(rs) : ~rs[k].played}))

\* searchYouTubeMusicFirstSong(`${artist} - ${title}`) is called with the
\* same query for both candidates
sameQuery(c, d) == trim(c.title) = trim(d.title) /\ trim(c.artist) = trim(d.artist)

\* one pass of `for (const t of lbTracks)`: the filters, then the resolver,
\* which finds nothing, or a URL the store has (as it does for a query whose
\* result was inserted), or a URL that is inserted
Consider ==
  /\ run.at = "loop"
  /\ run.i <= Len(run.batch) /\ run.inserted < runNeed(run.rows)
  /\ LET c == run.batch[run.i]
         lastPlayedKey == normalizeTrackName(lastPlayedTrackName(run.rows))
     IN  IF skips(c, lastPlayedKey, run.seen)
         THEN run' = [run EXCEPT !.i = @ + 1]
         ELSE \E out \in {"none", "exists", "new"} :
                /\ out = "exists" => (run.rows # << >> \/ run.inserted > 0)
                /\ out = "new" =>
                     \A j \in run.added : ~sameQuery(run.batch[j], c)
                /\ run' = [run EXCEPT
                     !.i = @ + 1,
                     !.seen = remember(c, @),
                     !.resolved = @ \cup {run.i},
                     !.inserted = IF out = "new" THEN @ + 1 ELSE @,
                     !.added = IF out = "new" THEN @ \cup {run.i} ELSE @]
  /\ UNCHANGED << rows, nextId, now, ticks, lastAutofillAt, pc, next, pf, resp,
                  solo, hCall, hGate, hist, hPf, fresh, qreq, qresp, ytIn, ytOut,
                  lb, faulty, front >>

\* `if (inserted >= need) break`, or the batch is at its end
EndLoop ==
  /\ run.at = "loop"
  /\ run.i > Len(run.batch) \/ run.inserted >= runNeed(run.rows)
  /\ run' = [run EXCEPT !.at = "end"]
  /\ UNCHANGED << rows, nextId, now, ticks, lastAutofillAt, pc, next, pf, resp,
                  solo, hCall, hGate, hist, hPf, fresh, qreq, qresp, ytIn, ytOut,
                  lb, faulty, front >>

\* the names in the table and in the batches
RowTitles  == {<< "Song" >>, << "Other" >>, << "\"" >>}
Titles     == {<< "Song" >>, << " ", "song" >>, << "Other" >>, << "\"" >>,
               << " " >>}
Artists    == {<< "Ana" >>, << "ana", " ", "-", " ", "Topic" >>,
               << "feat", ".", " ", "Bob" >>, << "ft", " ", "Ana" >>}
Candidates == [title : Titles, artist : Artists]
Played     == [title : RowTitles, played : {TRUE}]
Pending    == [title : RowTitles, played : {FALSE}]
\* tables in creation order that were handed out oldest first and leave
\* something to insert
Tables ==
  {<< >>} \cup {<< r >> : r \in Played \cup Pending}
          \cup {<< d, r >> : d \in Played, r \in Played \cup Pending}
Batches ==
  {<< >>} \cup {<< c >> : c \in Candidates}
          \cup {<< c, d >> : c, d \in Candidates}

InitBatch ==
  /\ InitStore(TRUE) /\ hGate = NoGate /\ fresh = FALSE /\ InitSide
  /\ lb = NoLb /\ faulty = FALSE /\ InitFront
  /\ \E t \in Tables, b \in Batches :
       run = [NoRun EXCEPT !.at = "loop", !.rows = t, !.batch = b, !.i = 1]

NextBatch == Consider \/ EndLoop

\* the loop of one autofill run on every table and batch
SpecBatch == InitBatch /\ [][NextBatch]_vars

\* the newest row that was handed to the encoder, if any
PlayedRows(rs)      == {k \in 1..Len(rs) : rs[k].played}
LastPlayedTitle(rs) ==
  rs[CHOOSE k \in PlayedRows(rs) : \A j \in PlayedRows(rs) : j <= k].title
SamePair(c, d) ==
  titleKeyOf(c) = titleKeyOf(d) /\ artistKeyOf(c) = artistKeyOf(d)

\* C24, first part: no candidate with the normalized title of the most
\* recently played track is resolved
C24_LastPlayedNeverResolved ==
  \A k \in run.resolved :
    PlayedRows(run.rows) # {} =>
      titleKeyOf(run.batch[k]) # normalizeTrackName(LastPlayedTitle(run.rows))

\* C24, second part: no two candidates with the same normalized pair are
\* accepted for resolution, nor inserted
C24_OnePerPairResolved ==
  \A j, k \in run.resolved :
    j # k => ~SamePair(run.batch[j], run.batch[k])
C24_OnePerPairInserted ==
  \A j, k \in run.added :
    j # k => ~SamePair(run.batch[j], run.batch[k])

\* C24: within one run, a candidate whose normalized title is that of the
\* most recently played track is never resolved or inserted, and at most
\* one candidate per normalized (title, artist) pair is accepted.
C24_FiltersHold ==
  /\ C24_LastPlayedNeverResolved
  /\ C24_OnePerPairResolved
  /\ C24_OnePerPairInserted

\* ========================================================== fetchLbRadio
\* an error thrown by client.get: an ApiError or not, with the code of its
\* cause and its own code ("" when it has none)
NetCodes  == {"ECONNRESET", "ETIMEDOUT", "EAI_AGAIN", "ECONNREFUSED",
              "ENOTFOUND"}
Errors    == [api : BOOLEAN, cause : {"", "ETIMEDOUT", "EPIPE"},
              code : NetCodes \cup {"", "EPIPE"}]

\* err?.cause?.code || err?.code
codeOf(err) == IF err.cause # "" THEN err.cause ELSE err.code

\* mutant: every error that carries a code is taken for a transient one
isAnyCodedError(err) == codeOf(err) # ""

isTransientNetworkError(err) == codeOf(err) \in NetCodes

\* 250 * Math.pow(2, attempt - 1)
backoff(attempt) == 250 * 2 ^ (attempt - 1)

\* ensurePrefill lets the errors of fetchLbRadio through to the handler
thrownAs(out) ==
  CASE out = "PromptEmpty" -> "prompt"
    [] out = "Network" -> "network"
    [] out = "Error" -> "other"
    [] OTHER -> "ok"

\* fetchLbRadio up to the loop: the check of the prompt, then getLB()
LbStart ==
  /\ lb.at = "start"
  /\ lb' = IF trim(lb.prompt) = << >>
           THEN [lb EXCEPT !.at = "done", !.out = "PromptEmpty"]
           ELSE IF ~lb.token
           THEN [lb EXCEPT !.at = "done", !.out = "Error"]
           ELSE [lb EXCEPT !.at = "call", !.attempt = 1]
  /\ UNCHANGED << rows, nextId, now, ticks, lastAutofillAt, pc, next, pf, resp,
                  solo, hCall, hGate, hist, hPf, fresh, qreq, qresp, ytIn, ytOut,
                  run, faulty, front >>

\* one attempt: client.get returns a playlist, or something else, or throws
LbAttempt ==
  /\ lb.at = "call"
  /\ \/ \E o \in {"tracks", "empty"} :
          lb' = [lb EXCEPT !.at = "done", !.out = o, !.calls = @ + 1]
     \/ \E err \in Errors :
          lb' = IF err.api
                THEN [lb EXCEPT !.at = "done", !.out = "empty",
                        !.calls = @ + 1, !.errs = Append(@, err)]
                ELSE IF isTransientNetworkError(err)
                        /\ lb.attempt < MAX_ATTEMPTS
                THEN [lb EXCEPT !.at = "sleep", !.calls = @ + 1,
                        !.errs = Append(@, err),
                        !.slept = Append(@, backoff(lb.attempt))]
                ELSE IF isTransientNetworkError(err)
                THEN [lb EXCEPT !.at = "done", !.out = "Network",
                        !.calls = @ + 1, !.errs = Append(@, err)]
                ELSE [lb EXCEPT !.at = "done", !.out = "empty",
                        !.calls = @ + 1, !.errs = Append(@, err)]
  /\ UNCHANGED << rows, nextId, now, ticks, lastAutofillAt, pc, next, pf, resp,
                  solo, hCall, hGate, hist, hPf, fresh, qreq, qresp, ytIn, ytOut,
                  run, faulty, front >>

\* sleep(backoff) is over: `continue`
LbWake ==
  /\ lb.at = "sleep"
  /\ lb' = [lb EXCEPT !.at = "call", !.attempt = @ + 1]
  /\ UNCHANGED << rows, nextId, now, ticks, lastAutofillAt, pc, next, pf, resp,
                  solo, hCall, hGate, hist, hPf, fresh, qreq, qresp, ytIn, ytOut,
                  run, faulty, front >>

\* the catch block of the handler around the call of ensurePrefill at
\* lb.site, on what fetchLbRadio threw
LbCatch ==
  /\ lb.at = "done"
  /\ lb' = [lb EXCEPT !.at = "handled",
              !.resp = IF CatchReturns(lb.site, thrownAs(lb.out))
                       THEN CatchResp(thrownAs(lb.out)) ELSE NoResp]
  /\ UNCHANGED << rows, nextId, now, ticks, lastAutofillAt, pc, next, pf, resp,
                  solo, hCall, hGate, hist, hPf, fresh, qreq, qresp, ytIn, ytOut,
                  run, faulty, front >>

Prompts == {<< >>, << " " >>, << " ", "\t" >>, << "#rock" >>,
            << " ", "artist:(Ana)" >>}

InitLb ==
  /\ InitStore(TRUE) /\ hGate = NoGate /\ fresh = FALSE /\ InitSide
  /\ run = NoRun /\ faulty = FALSE /\ InitFront
  /\ \E q \in Prompts, t \in BOOLEAN, s \in {1, 3, 4} :
       lb = [NoLb EXCEPT !.at = "start", !.prompt = q, !.token = t, !.site = s]

NextLb == LbStart \/ LbAttempt \/ LbWake \/ LbCatch

\* fetchLbRadio on every prompt, with and without a token, under every
\* sequence of results of client.get; each await returns
SpecLb == InitLb /\ [][NextLb]_vars /\ WF_vars(NextLb)

\* a transient network error: connection reset, timeout, DNS failure, refused
Transient(err) ==
  /\ ~err.api
  /\ (IF err.cause # "" THEN err.cause ELSE err.code) \in
       {"ECONNRESET", "ETIMEDOUT", "EAI_AGAIN", "ECONNREFUSED", "ENOTFOUND"}
LbOver == lb.at \in {"done", "handled"}

C25_Budget ==
  /\ lb.calls <= 3
  \* the errors that were retried are the first Len(lb.slept) ones
  /\ Len(lb.slept) <= Len(lb.errs)
  /\ \A k \in 1..Len(lb.slept) : Transient(lb.errs[k])
  /\ \A k \in 1..(Len(lb.slept) - 1) : lb.slept[k] < lb.slept[k + 1]
  \* an ApiError or another error ends the call at once with an empty list
  /\ \A k \in 1..Len(lb.errs) :
       ~Transient(lb.errs[k]) =>
         /\ k = Len(lb.errs) /\ lb.calls = k /\ Len(lb.slept) = k - 1
         /\ LbOver /\ lb.out = "empty"
  \* the typed error is raised after the third transient failure, and then only
  /\ lb.out = "Network" <=>
       /\ LbOver /\ lb.calls = 3 /\ Len(lb.errs) = 3
       /\ Transient(lb.errs[3])

\* C25: fetchLbRadio makes at most 3 attempts and always terminates; it
\* retries only transient network errors, with a growing backoff, raises the
\* typed network error after the last transient failure, and returns an empty
\* list without retry on an ApiError or any other error of an attempt.
C25_BoundedRetry == []C25_Budget /\ <>LbOver

\* three attempts failed on the network, 250 ms and 500 ms apart, and the
\* typed error was raised
C25_Witness ==
  /\ lb.at = "done" /\ lb.out = "Network"
  /\ lb.calls = 3 /\ lb.slept = << 250, 500 >>

Blank(x) == \A k \in 1..Len(x) : x[k] \in {" ", "\t"}

\* C26: a prompt that is empty after trimming makes fetchLbRadio raise the
\* empty-prompt error before any call of the network and without retry, and
\* the handler answers it with a 500 at each of the three calls of
\* ensurePrefill.
C26_EmptyPromptIs500 ==
  /\ Blank(lb.prompt) =>
       /\ lb.calls = 0 /\ lb.slept = << >> /\ lb.errs = << >>
       /\ LbOver => lb.out = "PromptEmpty"
       /\ lb.at = "handled" => lb.resp.status = 500
  /\ lb.out = "PromptEmpty" => Blank(lb.prompt)

\* a prompt of white space was refused with no call made, and the handler
\* answered 500 at step 4
C26_Witness ==
  /\ lb.at = "handled" /\ lb.prompt = << " ", "\t" >> /\ lb.site = 4
  /\ lb.calls = 0 /\ lb.out = "PromptEmpty"
  /\ lb.resp = internal500("internal-error:prompt")

\* ======================================================= a failing store
InitFaulty ==
  /\ InitStore(TRUE) /\ hGate = NoGate /\ fresh = FALSE /\ InitSide
  /\ run = NoRun /\ lb = NoLb /\ InitFront
  /\ faulty = TRUE

\* polls and user enqueues one at a time on a store whose calls may throw
SpecFaulty == InitFaulty /\ [][Next]_vars

PeekStep(p)  == pc[p] = "peek" /\ pc'[p] # "peek"
Peek2Step(p) == pc[p] = "peek2" /\ pc'[p] # "peek2"
PollStep(p)  == pc[p] = "idle" /\ pc'[p] # "idle"
HandsPending(p) ==
  \E r \in UndeliveredPlayable(rows) : next'[p] = [id |-> r.id, url |-> r.url]

\* C27: a read of the oldest pending row that fails is taken as "no track":
\* the handler does not crash, goes on to the forced autofill (which runs,
\* whatever the cooldown) with no row in hand, reads again, and answers 500
\* when that read yields no row either.
C27_ReadFaultIsNoTrack ==
  [][\A p \in Pollers :
       /\ PeekStep(p) =>
            \/ pc'[p] = "count" /\ HandsPending(p)
            \/ /\ pc'[p] = "pf_count" /\ pf'[p].site = 3
               /\ lastAutofillAt' = now /\ next'[p] = NoRow
       /\ Peek2Step(p) =>
            \/ pc'[p] = "count" /\ HandsPending(p)
            \/ /\ pc'[p] = "done" /\ next'[p] = NoRow
               /\ resp'[p] = internal500("internal-error:no-undelivered-tracks")]_vars

\* a poll has answered 500 for want of a track while a row is pending: both
\* of its reads failed
C27_Witness ==
  \E p \in Pollers :
    /\ pc[p] = "done"
    /\ resp[p] = internal500("internal-error:no-undelivered-tracks")
    /\ UndeliveredPlayable(rows) # {}

\* the sweep and the entry into the autofill, whatever the sweep did: the
\* handler neither crashes nor answers, the sweep removes the expired rows
\* or nothing, and the autofill is entered under its cooldown
SweepSwallowed(p) ==
  PollStep(p) =>
    /\ pc'[p] = IF now - lastAutofillAt < AUTOFILL_COOLDOWN_MS
                THEN "peek" ELSE "pf_count"
    /\ rows' = rows \/ rows' = cleanupExpired(rows, now)
\* the rows a failed sweep left behind are never handed to the encoder
HandsNoExpired(p) ==
  (pc[p] \in {"peek", "peek2"} /\ pc'[p] = "count") => HandsPending(p)
\* the duplicate check of the autofill answers as it would on the table
\* that a successful sweep would have left
ExistsAsIfSwept(p) ==
  pc[p] = "pf_exists" =>
    (existsUrl(rows, pf[p].cand) <=>
       existsUrl(cleanupExpired(rows, hSweptAt), pf[p].cand))

\* C28 (as stated): a failure of the sweep never fails the call, which goes
\* on with autofill and delivery exactly as if the sweep had succeeded.
C28_AsIfSwept ==
  [][\A p \in Pollers :
       SweepSwallowed(p) /\ HandsNoExpired(p) /\ ExistsAsIfSwept(p)]_vars

\* C28 (amended): a failure of the sweep is swallowed: the call goes on to
\* the autofill and the delivery, the rows left behind are never handed out
\* and a later sweep that succeeds removes them; until then the autofill
\* still finds them in its duplicate check.
C28_SweepFaultSwallowed ==
  [][\A p \in Pollers : SweepSwallowed(p) /\ HandsNoExpired(p)]_vars

\* a poll whose sweep failed (an expired row is still there) answered 200
C28_Witness ==
  \E p \in Pollers :
    /\ pc[p] = "done" /\ resp[p].status = 200
    /\ \E r \in rows : r.deleteAt # Null /\ r.deleteAt <= hSweptAt

\* ------------------------------------------------- the end of a row
RowOf(i)    == CHOOSE r \in rows : r.id = i
Expired(i)  ==
  i \in Ids(rows) /\ RowOf(i).deleteAt # Null /\ RowOf(i).deleteAt <= now
\* a poll arrives and its sweep succeeds
SweepOk ==
  \E p \in Pollers : PollStep(p) /\ rows' = cleanupExpired(rows, now)
\* a row leaves the table on the sweep of a poll only, once its deleteAt has
\* passed; deleteAt is set to the time of the delivery plus the quarantine
OnlySweepRemoves ==
  \A r \in rows :
    /\ r.id \notin Ids(rows') =>
         /\ \E p \in Pollers : PollStep(p)
         /\ r.deleteAt # Null /\ r.deleteAt <= now
    /\ (r.deleteAt = Null /\ r.id \in Ids(rows')) =>
         \A x \in rows' :
           x.id = r.id => x.deleteAt \in {Null, now + 10 * 60 * 1000}

\* C29: every row marked delivered is eventually removed, provided polls
\* keep arriving after its deleteAt has passed and their sweep succeeds; it
\* is removed by the sweep only, and not before its deleteAt, which is the
\* time of the delivery plus 10 minutes.
C29_DeliveredRowsAreSwept ==
  /\ [][OnlySweepRemoves]_vars
  /\ \A i \in 1..MaxRows :
       []<><<SweepOk>>_vars => (Expired(i) ~> i \notin Ids(rows))

\* a delivered row is gone from the table, 10 minutes after its delivery
C29_Witness ==
  /\ now >= StartTime + 10 * 60 * 1000
  /\ \E i \in 1..MaxRows : i < nextId /\ i \notin Ids(rows)

\* C30: once a row is pending, some row is pending in every later state: no
\* step of a poll, of the autofill, of the sweep or of a user enqueue takes
\* the last pending row away.
C30_PendingNeverEmpties ==
  [][HPending(rows) # {} => HPending(rows') # {}]_vars

\* ============================================ a well-filled queue
\* the poll in hand started alone on two or more pending rows
StartedOnTwo == Cardinality(HPending(hStartRows)) >= 2

\* C31: a poll that starts alone on two or more pending rows never reaches
\* the recommendation source or the resolver (its autofill is skipped by
\* the cooldown or returns on need = 0, and no forced autofill is called),
\* so no failure of theirs reaches it: it answers 200 with an oldest pending
\* row.
C31_NoUpstreamOnTwoPending ==
  \A p \in Pollers :
    StartedOnTwo =>
      /\ pc[p] \notin {"pf_exists", "pf_create", "peek2", "count2", "crashed"}
      /\ pf[p].site \in {0, 1}
      /\ hPf.kind \in {"", "skipped", "ok"}
      /\ hPf.kind = "ok" =>
           /\ hPf.site = 1 /\ hPf.ins = 0
           /\ hPf.und >= TARGET_UNDELIVERED_BEFORE_DELIVER
      /\ Ids(rows) \subseteq Ids(hStartRows)
      /\ pc[p] = "done" =>
           /\ resp[p].status = 200
           /\ \E a \in HPending(hStartRows) :
                /\ a.id = resp[p].id /\ a.url = resp[p].url
                /\ \A s \in HPending(hStartRows) : a.createdAt <= s.createdAt

\* a poll that started on two pending rows has answered after its autofill
\* passed the cooldown gate, counted the rows and returned
C31_Witness ==
  \E p \in Pollers :
    /\ pc[p] = "done" /\ StartedOnTwo /\ resp[p].status = 200
    /\ hPf.kind = "ok" /\ hPf.site = 1 /\ hPf.und >= 2

\* C32: right after each insertion of an autofill run the number of pending
\* rows is at most the target buffer of 2, also when the runs of overlapping
\* polls interleave.
C32_InsertKeepsTarget ==
  [][\A p \in Pollers :
       InsertStep(p) =>
         countUndeliveredPlayable(rows') <= TARGET_UNDELIVERED_BEFORE_DELIVER]_vars

\* ================================================ the cooldown gate
InitGate ==
  /\ InitStore(FALSE) /\ hGate = [NoGate EXCEPT !.on = TRUE]
  /\ fresh = FALSE /\ InitSide /\ InitMore

\* less than the cooldown passes on the clock, while polls are under way
ShortPause == ticks < MaxGatePauses /\ Pause

NextGate ==
  \/ \E p \in Pollers :
       \/ Poll(p) \/ PfCount(p) \/ PfExists(p) \/ PfCreate(p)
       \/ Peek(p) \/ Peek2(p) \/ Count(p) \/ Count2(p)
       \/ Mark(p) \/ Return(p)
  \/ ShortPause

\* overlapping polls, less than a cooldown apart
SpecGate == InitGate /\ [][NextGate]_vars

\* C33: of the calls of ensurePrefill without force that overlapping polls
\* make within one cooldown (10 s) of each other, at most one passes the
\* gate: any two that passed are a full cooldown apart, and a call that
\* passes leaves lastAutofillAt at its own time in the same step.
C33_GateIsAtomic ==
  /\ \A i, j \in 1..Len(hGate.ran) :
       i < j => hGate.ran[j] - hGate.ran[i] >= 10 * 1000
  /\ \A i \in 1..Len(hGate.ran) : lastAutofillAt >= hGate.ran[i]

\* two polls overlap: the call without force of one passed the gate and is
\* at its count, the call of the other, later and within the cooldown, was
\* held back
C33_Witness ==
  /\ Len(hGate.ran) >= 1
  /\ \E p \in Pollers : pc[p] = "pf_count" /\ pf[p].site = 1
  /\ hGate.skipped = now
  /\ hGate.skipped > hGate.ran[Len(hGate.ran)]
  /\ hGate.skipped - hGate.ran[Len(hGate.ran)] < 10 * 1000

\* ====================================================== the seed prompt
\* the truth value of a string or of null
Truthy(v) == v.t = "string" /\ v.s # << >>

\* `if (!a) return 'popular songs'`, else `artist:(${a})`
buildPromptFromArtist(artistName) ==
  LET a == normalizeArtist(artistName)
  IN  IF a = << >> THEN << "popular songs" >>
      ELSE << "artist:(" >> \o a \o << ")" >>

\* mutant: the track name of the newest row as it is, with no fallback
seedFromTrackName(lastPlayed) ==
  IF lastPlayed = JNull \/ lastPlayed.trackName.t # "string" THEN << >>
  ELSE lastPlayed.trackName.s

\* (lastPlayed?.artistName && buildPromptFromArtist(lastPlayed.artistName))
\*   || (lastPlayed?.trackName?.trim() ? lastPlayed.trackName : '#rock')
seedPrompt(lastPlayed) ==
  LET artistName == IF lastPlayed = JNull THEN Undef ELSE lastPlayed.artistName
      trackName  == IF lastPlayed = JNull THEN Undef ELSE lastPlayed.trackName
      first == IF Truthy(artistName)
               THEN Str(buildPromptFromArtist(artistName.s)) ELSE artistName
  IN  IF Truthy(first) THEN first.s
      ELSE IF trackName.t = "string" /\ trim(trackName.s) # << >>
      THEN trackName.s
      ELSE << "#rock" >>

\* ensurePrefill from the read of lastPlayed to the call of fetchLbRadio
SeedPrompt ==
  /\ lb.at = "seed"
  /\ lb' = [lb EXCEPT !.at = "start", !.prompt = seedPrompt(lb.last)]
  /\ UNCHANGED << rows, nextId, now, ticks, lastAutofillAt, pc, next, pf, resp,
                  solo, hCall, hGate, hist, hPf, fresh, qreq, qresp, ytIn, ytOut,
                  run, faulty, front >>

\* the names of the newest row: null, empty, white space, a name, and names
\* that normalizeArtist reduces to nothing
SeedArtists == {JNull, Str(<< >>), Str(<< " " >>), Str(<< "Ana" >>),
                Str(<< "feat", ".", " ", "Bob" >>), Str(<< "(", ")" >>),
                Str(<< "\"" >>), Str(<< " ", "-", " ", "Topic" >>),
                Str(<< "Ana", " ", "VEVO" >>)}
SeedTracks  == {JNull, Str(<< >>), Str(<< " ", "\t" >>), Str(<< "Song" >>),
                Str(<< " ", "Song" >>)}
\* what findFirst({ orderBy: { createdAt: 'desc' } }) returns
LastRows    == {JNull} \cup [artistName : SeedArtists, trackName : SeedTracks]

InitSeed ==
  /\ InitStore(TRUE) /\ hGate = NoGate /\ fresh = FALSE /\ InitSide
  /\ run = NoRun /\ faulty = FALSE /\ InitFront
  /\ \E l \in LastRows, t \in BOOLEAN, s \in {1, 3, 4} :
       lb = [NoLb EXCEPT !.at = "seed", !.last = l, !.token = t, !.site = s]

NextSeed == SeedPrompt \/ LbStart \/ LbAttempt \/ LbWake \/ LbCatch

\* an autofill run from the read of the newest row, on every pair of names
SpecSeed == InitSeed /\ [][NextSeed]_vars

\* C34: whatever the artist and track names of the newest row, and with no
\* row at all, the prompt handed to fetchLbRadio is not empty after
\* trimming: fetchLbRadio never raises the empty-prompt error and the
\* handler never answers its 500.
C34_SeedNeverBlank ==
  /\ lb.at # "seed" => ~Blank(lb.prompt)
  /\ lb.out # "PromptEmpty"
  /\ lb.resp.status # 500

\* the newest row has an artist name that normalizes to nothing and an empty
\* track name: the run asked the source for 'popular songs'
C34_Witness ==
  /\ lb.last = [artistName |-> Str(<< " ", "-", " ", "Topic" >>),
                trackName |-> Str(<< >>)]
  /\ lb.prompt = << "popular songs" >>
  /\ lb.calls >= 1 /\ lb.at = "handled"

\* ================================================== a mark that fails
\* poll p is past its mark without having set deleteAt
MarkFailed(p) == pc[p] = "mark" /\ pc'[p] = "done" /\ ~resp'[p].marked

\* C35: when the update that marks the row in hand fails, the poll still
\* answers 200 with the URL of that row, no row changes and the row stays
\* pending; it is the row that the read of the next poll returns.
C35_FailedMarkKeepsRow ==
  [][\A p \in Pollers :
       MarkFailed(p) =>
         /\ resp'[p] = ok200(next[p], FALSE)
         /\ rows' = rows
         /\ \E r \in HPending(rows') :
              /\ r.id = next[p].id /\ r.url = next[p].url
              /\ peekOldestUndeliveredPlayable(rows') = {r}]_vars

\* =========================================== the player: auto-reconnect
\* everything but the player
butPlayer == << rows, nextId, now, ticks, lastAutofillAt, pc, next, pf, resp,
                solo, hCall, hGate, hist, hPf, fresh, qreq, qresp, ytIn, ytOut,
                run, lb, faulty, pool >>

\* the ids window.setTimeout hands out
TimerIds == 1..MaxTimers

\* mutant: the timer is left to run
clearNothing(pl) == pl

\* if (retryTimerRef.current) window.clearTimeout(retryTimerRef.current);
\* retryTimerRef.current = null
clearRetry(pl) ==
  [pl EXCEPT !.timers = {t \in @ : t.id # pl.retryTimer}, !.retryTimer = 0]

\* Math.min(backoffRef.current * 2, 30000)
nextBackoff(b) == IF b * 2 < 30000 THEN b * 2 ELSE 30000

\* scheduleRetry as created by a render in which isOnline was `online`: the
\* three early returns, clearRetry(), then a timer of backoffRef.current ms
\* whose callback keeps that `online`
scheduleRetry(pl, online) ==
  IF pl.manualPaused THEN pl
  ELSE IF ~pl.keepAlive \/ ~online THEN pl
  ELSE IF pl.autoplayBlocked THEN pl
  ELSE LET c    == clearRetry(pl)
           free == {i \in TimerIds : \A t \in c.timers : t.id # i}
           id   == CHOOSE i \in free : \A j \in free : i <= j
       IN  IF free = {} THEN c
           ELSE [c EXCEPT !.retryTimer = id,
                          !.timers = @ \cup {[id |-> id, delay |-> c.backoff,
                                              online |-> online]}]

\* onError, onWaiting, onSuspend, onEmptied, onEnded, the `stalled` listener
\* and the watchdog interval that finds the audio paused: scheduleRetry
MediaEvent ==
  /\ player' = scheduleRetry(player, player.isOnline)
  /\ UNCHANGED butPlayer

\* onPlay
OnPlay ==
  /\ player' = clearRetry([player EXCEPT !.manualPaused = FALSE,
                                         !.backoff = 1000])
  /\ UNCHANGED butPlayer

\* onPlaying
OnPlaying ==
  /\ player' = clearRetry([player EXCEPT !.autoplayBlocked = FALSE,
                                         !.backoff = 1000])
  /\ UNCHANGED butPlayer

\* onPause: a click on the main control that did not end the track is a
\* manual pause; any other pause schedules a retry
OnPause ==
  /\ \E ended \in BOOLEAN :
       player' = IF player.userClick /\ ~ended
                 THEN clearRetry([player EXCEPT !.manualPaused = TRUE])
                 ELSE IF ~player.manualPaused
                 THEN scheduleRetry(player, player.isOnline)
                 ELSE player
  /\ UNCHANGED butPlayer

\* onPlayError
OnPlayError ==
  /\ player' = [player EXCEPT !.autoplayBlocked = TRUE]
  /\ UNCHANGED butPlayer

\* handlePlayerPointerDownCapture on a main control
PointerDown ==
  /\ player' = [player EXCEPT !.userClick = TRUE]
  /\ UNCHANGED butPlayer

\* 300 ms later
ClickExpires ==
  /\ player.userClick
  /\ player' = [player EXCEPT !.userClick = FALSE]
  /\ UNCHANGED butPlayer

\* keepAliveEnabled or isOnline changes, and the effect on them runs
Status ==
  /\ \E k, o \in BOOLEAN :
       /\ k # player.keepAlive \/ o # player.isOnline
       /\ LET pl == [player EXCEPT !.keepAlive = k, !.isOnline = o]
          IN  player' = IF ~k THEN pl
                        ELSE IF ~o THEN clearRetry(pl)
                        ELSE IF pl.manualPaused THEN pl
                        ELSE scheduleRetry(pl, o)
  /\ UNCHANGED butPlayer

\* a retry timer fires: the three early returns, then tryPlay() is called
TimerFires ==
  /\ \E t \in player.timers :
       LET pl == [player EXCEPT !.timers = @ \ {t}]
       IN  IF pl.manualPaused THEN player' = pl
           ELSE IF ~pl.keepAlive \/ ~t.online THEN player' = pl
           ELSE IF pl.autoplayBlocked THEN player' = pl
           ELSE /\ pl.plays < MaxPlays
                /\ player' = [pl EXCEPT !.plays = @ + 1]
  /\ UNCHANGED butPlayer

\* `await tryPlay()` returns in the callback of a timer: play() succeeded,
\* or it was rejected, or there is no audio element
TryPlayEnds ==
  /\ player.plays > 0
  /\ \E ok \in BOOLEAN, audio \in BOOLEAN :
       /\ ok => audio
       /\ LET pl == [player EXCEPT
                       !.plays = @ - 1,
                       !.autoplayBlocked = IF audio THEN ~ok ELSE @]
          IN  player' =
                IF ok THEN clearRetry([pl EXCEPT !.backoff = 1000])
                ELSE scheduleRetry([pl EXCEPT !.backoff = nextBackoff(@)],
                                   TRUE)
  /\ UNCHANGED butPlayer

\* the page is mounted: the station is not known to be online yet
InitPlayer ==
  /\ InitStore(TRUE) /\ hGate = NoGate /\ fresh = FALSE /\ InitSide
  /\ run = NoRun /\ lb = NoLb /\ faulty = FALSE /\ pool = NoPool
  /\ player = [on |-> TRUE, manualPaused |-> FALSE, keepAlive |-> TRUE,
               isOnline |-> FALSE, autoplayBlocked |-> FALSE,
               userClick |-> FALSE, retryTimer |-> 0, timers |-> {},
               backoff |-> 1000, plays |-> 0]

NextPlayer ==
  \/ MediaEvent \/ OnPlay \/ OnPlaying \/ OnPause \/ OnPlayError
  \/ PointerDown \/ ClickExpires \/ Status \/ TimerFires \/ TryPlayEnds

\* the events of the audio element, of the listener and of the timers, in
\* any order
SpecPlayer == InitPlayer /\ [][NextPlayer]_vars

butPool == << rows, nextId, now, ticks, lastAutofillAt, pc, next, pf, resp,
              solo, hCall, hGate, hist, hPf, fresh, qreq, qresp, ytIn, ytOut,
              run, lb, faulty, player >>

\* mutant: one worker too many
workersOfOneMore(concurrency) == concurrency + 1

\* Array.from({ length: Math.max(1, concurrency) }, ...)
workersOf(concurrency) == IF concurrency > 1 THEN concurrency ELSE 1

\* what fn(items[idx], idx) resolves to; items[idx] of the code is
\* items[idx + 1] here
fnOf(items, idx) == << items[idx + 1], idx >>

\* a slot of `new Array(items.length)` that was not assigned
Hole == << >>

\* a worker at the head of `while (cursor < items.length)`: it takes the
\* next index and calls fn, or leaves the loop
takeNext(pl, w) ==
  IF pl.cursor < Len(pl.items)
  THEN [pl EXCEPT !.workers[w] = [st |-> "await", idx |-> pl.cursor],
                  !.calls[pl.cursor] = @ + 1,
                  !.cursor = @ + 1]
  ELSE [pl EXCEPT !.workers[w] = [st |-> "done", idx |-> 0]]

\* the workers are created one after the other, each running up to its
\* first await
RECURSIVE startWorkers(_, _)
startWorkers(pl, w) ==
  IF w > Len(pl.workers) THEN pl ELSE startWorkers(takeNext(pl, w), w + 1)

\* mapWithConcurrency up to `await Promise.all(workers)`
PoolStart ==
  /\ pool.at = "call"
  /\ pool' = startWorkers(
       [pool EXCEPT !.at = "run",
                    !.workers = [w \in 1..workersOf(pool.concurrency) |->
                                   [st |-> "new", idx |-> 0]]], 1)
  /\ UNCHANGED butPool

\* the call of fn that worker w awaits resolves: `results[idx] = ...`, then
\* the head of the loop
FnReturns ==
  /\ \E w \in 1..Len(pool.workers) :
       /\ pool.workers[w].st = "await"
       /\ LET idx == pool.workers[w].idx
          IN  pool' = takeNext(
                [pool EXCEPT !.results[idx] = fnOf(pool.items, idx),
                             !.order = Append(@, idx)], w)
  /\ UNCHANGED butPool

\* the call of fn that worker w awaits rejects: the worker ends
FnThrows ==
  /\ \E w \in 1..Len(pool.workers) :
       /\ pool.workers[w].st = "await"
       /\ pool' = [pool EXCEPT !.workers[w].st = "failed"]
  /\ UNCHANGED butPool

\* Promise.all(workers) settles: rejected once a worker has failed, resolved
\* when every worker has left its loop; `return results`
PoolSettles ==
  /\ pool.at = "run"
  /\ \/ /\ \E w \in 1..Len(pool.workers) : pool.workers[w].st = "failed"
        /\ pool' = [pool EXCEPT !.at = "rejected"]
     \/ /\ \A w \in 1..Len(pool.workers) : pool.workers[w].st = "done"
        /\ pool' = [pool EXCEPT !.at = "resolved"]
  /\ UNCHANGED butPool

\* the items and the concurrency of a call
ItemLists ==
  UNION {[1..n -> {"x", "y"}] : n \in 0..MaxItems}

InitPool ==
  /\ InitStore(TRUE) /\ hGate = NoGate /\ fresh = FALSE /\ InitSide
  /\ run = NoRun /\ lb = NoLb /\ faulty = FALSE /\ player = NoPlayer
  /\ \E it \in ItemLists, c \in 1..MaxConcurrency :
       pool = [at |-> "call", items |-> it, concurrency |-> c, cursor |-> 0,
               workers |-> << >>,
               results |-> [i \in 0..(Len(it) - 1) |-> Hole],
               calls |-> [i \in 0..(Len(it) - 1) |-> 0],
               order |-> << >>]

NextPool == PoolStart \/ FnReturns \/ FnThrows \/ PoolSettles

\* one call of mapWithConcurrency, the calls of fn settling in any order
SpecPool == InitPool /\ [][NextPool]_vars

\* the calls of fn that are under way
InFlight == {w \in 1..Len(pool.workers) : pool.workers[w].st = "await"}

\* C37: fn is called at most once for each index and never for another
\* one, a result is stored at the index of its item, no more than
\* `concurrency` calls are under way at once, and when the call resolves
\* every index has been called exactly once and holds its result.
C37_EachIndexOnce ==
  pool.at # "" =>
    /\ \A i \in DOMAIN pool.calls : pool.calls[i] <= 1
    /\ \A i \in DOMAIN pool.results :
         pool.results[i] # Hole =>
           pool.calls[i] = 1 /\ pool.results[i] = << pool.items[i + 1], i >>
    /\ \A w \in InFlight : pool.workers[w].idx \in DOMAIN pool.calls
    /\ \A v, w \in InFlight :
         v # w => pool.workers[v].idx # pool.workers[w].idx
    /\ Cardinality(InFlight) <= pool.concurrency
    /\ pool.at = "resolved" =>
         /\ InFlight = {}
         /\ \A i \in DOMAIN pool.calls :
              /\ pool.calls[i] = 1
              /\ pool.results[i] = << pool.items[i + 1], i >>

\* three items under a concurrency of 2: the second call ended first, the
\* first call last, and the call resolved
C37_Witness ==
  /\ pool.at = "resolved" /\ pool.concurrency = 2
  /\ Len(pool.items) = 3 /\ pool.order = << 1, 2, 0 >>

====
